---------------------------- MODULE Spec2Model ----------------------------
(***************************************************************************)
(* A model of graphyycode's analysis core: the graph builder               *)
(* (lib/graph-builder), the inline pipeline of POST /api/analyse, the      *)
(* background worker's poll loop and the poll endpoint                     *)
(* GET /api/analysis/:id.                                                  *)
(*                                                                         *)
(* Strings are TLA+ strings; a file's text is modelled as the sequence of  *)
(* reference declarations it holds (the form of each declaration and the   *)
(* specifier between its quotes), which is what the extractor's patterns   *)
(* read from it.                                                           *)
(***************************************************************************)
EXTENDS Integers, Sequences, FiniteSets, TLC

(***************************************************************************)
(* String helpers: the JavaScript string methods the code uses.            *)
(***************************************************************************)

\* The characters of the model's strings in ascending UTF-16 code unit order.
Ascii == "-./0123456789@ABCDEFGHIJKLMNOPQRSTUVWXYZ_abcdefghijklmnopqrstuvwxyz~"

Upper == "ABCDEFGHIJKLMNOPQRSTUVWXYZ"

Lower == "abcdefghijklmnopqrstuvwxyz"

CharAt(s, i) == SubSeq(s, i, i)

\* The rank of a one-character string in code unit order.
Code(c) == CHOOSE i \in 1..Len(Ascii) : CharAt(Ascii, i) = c

\* String.prototype.startsWith
StartsWith(s, p) == Len(s) >= Len(p) /\ SubSeq(s, 1, Len(p)) = p

\* A pattern anchored at the end ($)
EndsWith(s, p) == Len(s) >= Len(p) /\ SubSeq(s, Len(s) - Len(p) + 1, Len(s)) = p

\* String.prototype.includes
Includes(s, p) == \E i \in 1..(Len(s) - Len(p) + 1) : SubSeq(s, i, i + Len(p) - 1) = p

LowerChar(c) ==
    IF \E i \in 1..Len(Upper) : CharAt(Upper, i) = c
    THEN CharAt(Lower, CHOOSE i \in 1..Len(Upper) : CharAt(Upper, i) = c)
    ELSE c

RECURSIVE ToLowerCase(_)
\* String.prototype.toLowerCase
ToLowerCase(s) ==
    IF s = "" THEN "" ELSE LowerChar(CharAt(s, 1)) \o ToLowerCase(Tail(s))

RECURSIVE SplitFrom(_, _, _)
\* The pieces of s between occurrences of the character sep; cur is the piece read so far.
SplitFrom(s, sep, cur) ==
    IF s = "" THEN <<cur>>
    ELSE IF CharAt(s, 1) = sep THEN <<cur>> \o SplitFrom(Tail(s), sep, "")
    ELSE SplitFrom(Tail(s), sep, cur \o CharAt(s, 1))

\* String.prototype.split with a one-character separator: never empty.
Split(s, sep) == SplitFrom(s, sep, "")

RECURSIVE Join(_, _)
\* Array.prototype.join
Join(parts, sep) ==
    IF Len(parts) = 0 THEN ""
    ELSE IF Len(parts) = 1 THEN parts[1]
    ELSE parts[1] \o sep \o Join(Tail(parts), sep)

\* Array.prototype.pop on a split: the last piece.
Last(parts) == parts[Len(parts)]

\* filePath.split(".").pop()?.toLowerCase()
ExtOf(filePath) == ToLowerCase(Last(Split(filePath, ".")))

RECURSIVE StrLess(_, _)
\* a < b as Array.prototype.sort compares strings by default (code units).
StrLess(a, b) ==
    IF b = "" THEN FALSE
    ELSE IF a = "" THEN TRUE
    ELSE IF CharAt(a, 1) = CharAt(b, 1) THEN StrLess(Tail(a), Tail(b))
    ELSE Code(CharAt(a, 1)) < Code(CharAt(b, 1))

RECURSIVE InsertSorted(_, _)
InsertSorted(sorted, x) ==
    IF Len(sorted) = 0 THEN <<x>>
    ELSE IF StrLess(x, sorted[1]) THEN <<x>> \o sorted
    ELSE <<sorted[1]>> \o InsertSorted(Tail(sorted), x)

RECURSIVE SortStrings(_)
\* paths.sort(): ascending, equal strings kept.
SortStrings(xs) ==
    IF Len(xs) = 0 THEN <<>>
    ELSE InsertSorted(SortStrings(SubSeq(xs, 1, Len(xs) - 1)), xs[Len(xs)])

RECURSIVE ReplaceSlashDotSlash(_)
\* s.replace(/\/\.\//g, "/"): left to right, matches do not overlap.
ReplaceSlashDotSlash(s) ==
    IF s = "" THEN ""
    ELSE IF StartsWith(s, "/./") THEN "/" \o ReplaceSlashDotSlash(SubSeq(s, 4, Len(s)))
    ELSE CharAt(s, 1) \o ReplaceSlashDotSlash(Tail(s))

RECURSIVE DropSlashes(_)
DropSlashes(s) == IF StartsWith(s, "/") THEN DropSlashes(Tail(s)) ELSE s

RECURSIVE CollapseSlashes(_)
\* s.replace(/\/{2,}/g, "/")
CollapseSlashes(s) ==
    IF s = "" THEN ""
    ELSE IF StartsWith(s, "//") THEN "/" \o CollapseSlashes(DropSlashes(s))
    ELSE CharAt(s, 1) \o CollapseSlashes(Tail(s))

\* s.replace(/^\//, "")
StripLeadingSlash(s) == IF StartsWith(s, "/") THEN Tail(s) ELSE s

\* Array.prototype.includes
SeqIncludes(xs, x) == \E i \in 1..Len(xs) : xs[i] = x

RECURSIVE Dedup(_)
\* [...new Set(xs)]: the first occurrence of each element, in order.
Dedup(xs) ==
    IF Len(xs) = 0 THEN <<>>
    ELSE LET front == Dedup(SubSeq(xs, 1, Len(xs) - 1))
         IN  IF SeqIncludes(front, xs[Len(xs)]) THEN front
             ELSE Append(front, xs[Len(xs)])

RECURSIVE SelectFirst(_, _, _)
\* The first element of candidates that is in allPaths, or none.
SelectFirst(candidates, allPaths, none) ==
    IF Len(candidates) = 0 THEN none
    ELSE IF SeqIncludes(allPaths, candidates[1]) THEN candidates[1]
    ELSE SelectFirst(Tail(candidates), allPaths, none)

(***************************************************************************)
(* lib/graph-builder: languages and roles.                                 *)
(***************************************************************************)

\* JavaScript's undefined / null where the code yields a string otherwise.
Undefined == "<undefined>"

Null == "<null>"

\* The stems with each of the extensions, as "stem.ext".
Suffixes(stems, exts) == {s \o "." \o e : s \in stems, e \in exts}

TsExts == {"ts", "tsx"}

TsJsExts == {"ts", "tsx", "js", "jsx"}

TsJsOnly == {"ts", "tsx", "js"}

\* ROLE_HEURISTICS, in order. A rule matches a path that ends with one of its
\* suffixes (the pattern's $), or, for the last rule, that contains ".env";
\* README.md is matched case-insensitively (/i). The roles' dash is written "-".
ROLE_HEURISTICS ==
    << [kind |-> "ends", fold |-> FALSE, pats |-> Suffixes({"layout"}, TsJsExts),
        role |-> "Layout - Wraps all pages in this route segment"],
       [kind |-> "ends", fold |-> FALSE, pats |-> Suffixes({"page"}, TsJsExts),
        role |-> "Page - Renders the route UI"],
       [kind |-> "ends", fold |-> FALSE, pats |-> Suffixes({"route"}, TsExts),
        role |-> "API Route - Handles HTTP requests"],
       [kind |-> "ends", fold |-> FALSE, pats |-> Suffixes({"middleware"}, TsExts),
        role |-> "Middleware - Intercepts requests"],
       [kind |-> "ends", fold |-> FALSE, pats |-> {"schema.prisma"},
        role |-> "Database Schema - Defines all data models"],
       [kind |-> "ends", fold |-> FALSE,
        pats |-> Suffixes({".test", ".spec"}, TsJsExts \cup {"py"}),
        role |-> "Test - Unit or integration tests"],
       [kind |-> "ends", fold |-> FALSE, pats |-> Suffixes({"index"}, TsJsExts \cup {"py"}),
        role |-> "Module index - Entry point for this directory"],
       [kind |-> "ends", fold |-> FALSE, pats |-> Suffixes({"hook", "hooks"}, TsExts),
        role |-> "Custom hook - Reusable React logic"],
       [kind |-> "ends", fold |-> FALSE, pats |-> Suffixes({"context"}, TsExts),
        role |-> "React Context - Shared state provider"],
       [kind |-> "ends", fold |-> FALSE, pats |-> Suffixes({"store"}, TsExts),
        role |-> "State store - Application state management"],
       [kind |-> "ends", fold |-> FALSE, pats |-> Suffixes({"config"}, TsJsOnly),
        role |-> "Configuration - App or tool settings"],
       [kind |-> "ends", fold |-> FALSE, pats |-> Suffixes({"type", "types"}, TsExts),
        role |-> "Type definitions - TypeScript interfaces"],
       [kind |-> "ends", fold |-> FALSE, pats |-> Suffixes({"util", "utils"}, TsJsOnly),
        role |-> "Utilities - Helper functions"],
       [kind |-> "ends", fold |-> FALSE, pats |-> Suffixes({"constant", "constants"}, TsJsOnly),
        role |-> "Constants - Shared constant values"],
       [kind |-> "ends", fold |-> FALSE, pats |-> Suffixes({"provider", "providers"}, TsExts),
        role |-> "Provider - Wraps app with context"],
       [kind |-> "ends", fold |-> TRUE, pats |-> {"readme.md"},
        role |-> "Documentation - Project readme"],
       [kind |-> "ends", fold |-> FALSE, pats |-> {"package.json"},
        role |-> "Package manifest - Dependencies and scripts"],
       [kind |-> "has", fold |-> FALSE, pats |-> {".env"},
        role |-> "Environment config - Runtime variables"] >>

\* pattern.test(filePath)
RuleMatches(rule, filePath) ==
    LET subject == IF rule.fold THEN ToLowerCase(filePath) ELSE filePath
    IN  \E p \in rule.pats :
            IF rule.kind = "ends" THEN EndsWith(subject, p) ELSE Includes(subject, p)

\* langMap
LangMap ==
    [ts |-> "TypeScript", tsx |-> "TypeScript", js |-> "JavaScript", jsx |-> "JavaScript",
     py |-> "Python", go |-> "Go", rs |-> "Rust", rb |-> "Ruby", java |-> "Java",
     cs |-> "C#", cpp |-> "C++", c |-> "C", md |-> "Markdown", json |-> "JSON",
     yaml |-> "YAML", yml |-> "YAML", css |-> "CSS", scss |-> "SCSS", html |-> "HTML"]

detectLanguage(filename) ==
    LET ext == ExtOf(filename)
    IN  IF ext # "" /\ ext \in DOMAIN LangMap THEN LangMap[ext] ELSE Undefined

RECURSIVE LastRole(_, _)
\* The role of the last rule from index i on that matches, or Undefined: a loop
\* that keeps overwriting its result instead of returning.
LastRole(filePath, i) ==
    IF i > Len(ROLE_HEURISTICS) THEN Undefined
    ELSE LET later == LastRole(filePath, i + 1)
         IN  IF later # Undefined THEN later
             ELSE IF RuleMatches(ROLE_HEURISTICS[i], filePath) THEN ROLE_HEURISTICS[i].role
             ELSE Undefined

RECURSIVE FirstRole(_, _)
\* The role of the first rule from index i on that matches, or Undefined.
FirstRole(filePath, i) ==
    IF i > Len(ROLE_HEURISTICS) THEN Undefined
    ELSE IF RuleMatches(ROLE_HEURISTICS[i], filePath) THEN ROLE_HEURISTICS[i].role
    ELSE FirstRole(filePath, i + 1)

\* A fallback that gives the module role to every extension whose content is analysed.
inferFileRoleAnySource(filePath) ==
    LET matched == FirstRole(filePath, 1)
        ext == ExtOf(filePath)
    IN  IF matched # Undefined THEN matched
        ELSE IF ext # "" /\ ext \in {"ts", "tsx", "js", "jsx", "mjs", "cjs", "py", "go",
                                     "rs", "rb", "java", "cs", "cpp", "c"}
             THEN "Module - A JavaScript/TypeScript module"
        ELSE "File"

inferFileRole(filePath) ==
    LET matched == FirstRole(filePath, 1)
        ext == ExtOf(filePath)
    IN  IF matched # Undefined THEN matched
        ELSE IF ext # "" /\ ext \in {"ts", "tsx", "js", "jsx"}
             THEN "Module - A JavaScript/TypeScript module"
        ELSE "File"

(***************************************************************************)
(* lib/graph-builder: the reference extractor and resolver.                *)
(*                                                                         *)
(* A FileRecord is [path, hasContent, content, size]: content is the       *)
(* sequence of the text's reference declarations [form, spec], form one of *)
(* "import" (import .. from '..'), "require" (require('..')), "export"     *)
(* (export .. from '..'), "pyfrom" (from .. import), "pyimport" (import    *)
(* ..); hasContent is FALSE when the record has no content (undefined, or  *)
(* the empty text, both falsy). size is NoSize when undefined.             *)
(***************************************************************************)

NoSize == -1

\* IMPORT_PATTERNS: per extension, the declaration forms its patterns match, in order.
IMPORT_PATTERNS ==
    [ts  |-> <<"import", "require", "export">>,
     tsx |-> <<"import", "require">>,
     js  |-> <<"import", "require">>,
     jsx |-> <<"import", "require">>,
     py  |-> <<"pyfrom", "pyimport">>]

RECURSIVE MatchesOf(_, _)
\* The while loop over pattern.exec: the specifiers of the declarations of one
\* form, in text order, without the empty ones and those that start with "http".
MatchesOf(content, form) ==
    IF Len(content) = 0 THEN <<>>
    ELSE LET d == content[1]
             rest == MatchesOf(Tail(content), form)
         IN  IF d.form = form /\ d.spec # "" /\ ~StartsWith(d.spec, "http")
             THEN <<d.spec>> \o rest
             ELSE rest

RECURSIVE MatchesOfAll(_, _)
MatchesOfAll(content, patterns) ==
    IF Len(patterns) = 0 THEN <<>>
    ELSE MatchesOf(content, patterns[1]) \o MatchesOfAll(content, Tail(patterns))

extractImports(content, filePath) ==
    LET ext == ExtOf(filePath)
        patterns == IF ext \in DOMAIN IMPORT_PATTERNS THEN IMPORT_PATTERNS[ext]
                    ELSE IMPORT_PATTERNS.js
    IN  Dedup(MatchesOfAll(content, patterns))

\* A candidate list that tries .tsx before .ts.
CandidatesTsxFirst(normalized) ==
    << normalized, normalized \o ".tsx", normalized \o ".ts", normalized \o ".js",
       normalized \o "/index.ts", normalized \o "/index.tsx" >>

\* A candidate list that leaves out the stem itself: a path written with its
\* extension, or a file without one, is then never found.
CandidatesWithoutExact(normalized) ==
    << normalized \o ".ts", normalized \o ".tsx", normalized \o ".js",
       normalized \o "/index.ts", normalized \o "/index.tsx" >>

\* The candidates tried for a stem, in order.
Candidates(normalized) ==
    << normalized, normalized \o ".ts", normalized \o ".tsx", normalized \o ".js",
       normalized \o "/index.ts", normalized \o "/index.tsx" >>

\* fromFile.split("/").slice(0, -1).join("/")
DirOf(fromFile) ==
    LET parts == Split(fromFile, "/")
    IN  Join(SubSeq(parts, 1, Len(parts) - 1), "/")

\* A resolver without the guard that returns null for external packages: every
\* specifier without a marker is read as a path relative to the importing file.
resolveExternalsToo(importPath, fromFile, allPaths) ==
    IF StartsWith(importPath, "@/")
    THEN SelectFirst(<< SubSeq(importPath, 3, Len(importPath)),
                        SubSeq(importPath, 3, Len(importPath)) \o ".ts",
                        SubSeq(importPath, 3, Len(importPath)) \o ".tsx" >>, allPaths, Null)
    ELSE LET parts == Split(fromFile, "/")
             fromDir == Join(SubSeq(parts, 1, Len(parts) - 1), "/")
             resolved == IF fromDir # ""
                         THEN ReplaceSlashDotSlash(fromDir \o "/" \o importPath)
                         ELSE importPath
             normalized == StripLeadingSlash(CollapseSlashes(resolved))
         IN  SelectFirst(<< normalized, normalized \o ".ts", normalized \o ".tsx" >>,
                         allPaths, Null)

RECURSIVE CollapseSegments(_, _)
\* The segments of a path with the '.' and the empty ones dropped and each '..' taking
\* away the segment before it.
CollapseSegments(parts, done) ==
    IF Len(parts) = 0 THEN done
    ELSE IF parts[1] \in {".", ""} THEN CollapseSegments(Tail(parts), done)
    ELSE IF parts[1] = ".."
    THEN CollapseSegments(Tail(parts), SubSeq(done, 1, Len(done) - 1))
    ELSE CollapseSegments(Tail(parts), Append(done, parts[1]))

\* A resolver that collapses the parent segments of a relative specifier.
resolveCollapsingParents(importPath, fromFile, allPaths) ==
    IF /\ ~StartsWith(importPath, ".")
       /\ ~StartsWith(importPath, "@/")
       /\ ~StartsWith(importPath, "~/")
    THEN Null
    ELSE IF StartsWith(importPath, "@/")
    THEN SelectFirst(Candidates(SubSeq(importPath, 3, Len(importPath))), allPaths, Null)
    ELSE LET joined == Split(DirOf(fromFile) \o "/" \o importPath, "/")
             normalized == Join(CollapseSegments(joined, <<>>), "/")
         IN  SelectFirst(Candidates(normalized), allPaths, Null)

resolveImportPath(importPath, fromFile, allPaths) ==
    IF /\ ~StartsWith(importPath, ".")
       /\ ~StartsWith(importPath, "@/")
       /\ ~StartsWith(importPath, "~/")
    THEN Null
    ELSE IF StartsWith(importPath, "@/")
    THEN SelectFirst(Candidates(SubSeq(importPath, 3, Len(importPath))), allPaths, Null)
    ELSE LET fromDir == DirOf(fromFile)
             resolved == IF fromDir # ""
                         THEN ReplaceSlashDotSlash(fromDir \o "/" \o importPath)
                         ELSE importPath
             normalized == StripLeadingSlash(CollapseSlashes(resolved))
         IN  SelectFirst(Candidates(normalized), allPaths, Null)

(***************************************************************************)
(* lib/graph-builder: buildFileTree.                                       *)
(*                                                                         *)
(* A FileTreeNode is [name, path, type, hasChildren, children, language]:  *)
(* hasChildren is FALSE while the node's children field is undefined.      *)
(***************************************************************************)

NewTreeNode(parts, i) ==
    LET isLast == i = Len(parts)
    IN  [name |-> parts[i],
         path |-> Join(SubSeq(parts, 1, i), "/"),
         type |-> IF isLast THEN "file" ELSE "dir",
         hasChildren |-> ~isLast,
         children |-> <<>>,
         language |-> IF isLast THEN detectLanguage(parts[i]) ELSE Undefined]

\* A lookup that never finds the child: every path then gets nodes of its own.
FindChildNever(children, part) == 0

\* current.children.find((c) => c.name === part): its index, 0 when there is none.
FindChild(children, part) ==
    IF \E k \in 1..Len(children) : children[k].name = part
    THEN CHOOSE k \in 1..Len(children) :
            /\ children[k].name = part
            /\ \A m \in 1..(k - 1) : children[m].name # part
    ELSE 0

RECURSIVE InsertPath(_, _, _)
\* The inner loop from step i on, with current = node: node after the walk.
InsertPath(node, parts, i) ==
    LET kids == node.children
        k == FindChild(kids, parts[i])
        child == IF k = 0 THEN NewTreeNode(parts, i) ELSE kids[k]
        walked == IF i = Len(parts) THEN child ELSE InsertPath(child, parts, i + 1)
    IN  [node EXCEPT !.hasChildren = TRUE,
                     !.children = IF k = 0 THEN Append(kids, walked)
                                  ELSE [kids EXCEPT ![k] = walked]]

RECURSIVE InsertAll(_, _)
InsertAll(root, sortedPaths) ==
    IF Len(sortedPaths) = 0 THEN root
    ELSE InsertAll(InsertPath(root, Split(sortedPaths[1], "/"), 1), Tail(sortedPaths))

TreeRoot ==
    [name |-> "/", path |-> "", type |-> "dir", hasChildren |-> TRUE,
     children |-> <<>>, language |-> Undefined]

buildFileTree(paths) == InsertAll(TreeRoot, SortStrings(paths))

(***************************************************************************)
(* lib/graph-builder: buildGraph.                                          *)
(***************************************************************************)

\* files.map((f) => f.path)
PathsOf(files) == [i \in 1..Len(files) |-> files[i].path]

\* A node identified by its file name instead of its path.
NodeByLabel(f) ==
    [id |-> Last(Split(f.path, "/")),
     label |-> Last(Split(f.path, "/")),
     type |-> "file",
     path |-> f.path,
     language |-> detectLanguage(f.path),
     role |-> inferFileRole(f.path),
     size |-> f.size]

NodeOf(f) ==
    [id |-> f.path,
     label |-> Last(Split(f.path, "/")),
     type |-> "file",
     path |-> f.path,
     language |-> detectLanguage(f.path),
     role |-> inferFileRole(f.path),
     size |-> f.size]

\* The key a (source, target) pair is deduplicated by; the code's arrow is written "->".
EdgeKey(source, target) == source \o "->" \o target

\* seenEdges after the edges were pushed
SeenEdges(edges) == {edges[i].id : i \in 1..Len(edges)}

\* The inner loop's iteration without the lookup in seenEdges.
AddEdgeUnseen(edges, file, imp, allPaths) ==
    LET resolved == resolveImportPath(imp, file.path, allPaths)
    IN  IF resolved # Null /\ resolved # "" /\ resolved # file.path
        THEN Append(edges, [id |-> EdgeKey(file.path, resolved), source |-> file.path,
                            target |-> resolved,
                            type |-> IF Includes(imp, "require") THEN "require"
                                     ELSE "import"])
        ELSE edges

\* One iteration of the inner loop: edges after specifier imp of file was handled.
AddEdge(edges, file, imp, allPaths) ==
    LET resolved == resolveImportPath(imp, file.path, allPaths)
        edgeKey == EdgeKey(file.path, resolved)
    IN  IF resolved # Null /\ resolved # "" /\ resolved # file.path
           /\ edgeKey \notin SeenEdges(edges)
        THEN Append(edges, [id |-> edgeKey, source |-> file.path, target |-> resolved,
                            type |-> IF Includes(imp, "require") THEN "require"
                                     ELSE "import"])
        ELSE edges

RECURSIVE AddEdgesOf(_, _, _, _)
AddEdgesOf(edges, file, imports, allPaths) ==
    IF Len(imports) = 0 THEN edges
    ELSE AddEdgesOf(AddEdge(edges, file, imports[1], allPaths), file, Tail(imports), allPaths)

RECURSIVE BuildEdges(_, _, _)
\* The outer loop over files, from the edges pushed so far.
BuildEdges(edges, files, allPaths) ==
    IF Len(files) = 0 THEN edges
    ELSE LET file == files[1]
             next == IF ~file.hasContent THEN edges
                     ELSE AddEdgesOf(edges, file,
                                     extractImports(file.content, file.path), allPaths)
         IN  BuildEdges(next, Tail(files), allPaths)

\* fileRoles: an object keyed by path, a later record of a path overwriting an earlier.
FileRoles(files) ==
    [p \in {files[i].path : i \in 1..Len(files)} |-> inferFileRole(p)]

buildGraph(files) ==
    LET allPaths == PathsOf(files)
    IN  [nodes |-> [i \in 1..Len(files) |-> NodeOf(files[i])],
         edges |-> BuildEdges(<<>>, files, allPaths),
         fileTree |-> buildFileTree(allPaths),
         fileRoles |-> FileRoles(files)]

(***************************************************************************)
(* State.                                                                  *)
(***************************************************************************)

VARIABLES
    analysis,       \* the Analysis table: row i is the job with id i, in createdAt order
    graphArtifact,  \* the GraphArtifact table: rows [analysisId, data]
    req,            \* per POST /api/analyse request slot: where its handler stands
    tick,           \* per invocation slot of the worker's poll(): where it stands
    mainPc,         \* the worker's main(): "start", "firstPoll" (awaiting it), "interval"
    gFiles,         \* the FileRecord list handed to buildGraph
    gBuilt,         \* whether buildGraph has returned
    gArtifact,      \* what it returned
    tPaths,         \* the path list handed to buildFileTree
    tBuilt,         \* whether buildFileTree has returned
    tTree,          \* what it returned
    cInput,         \* the (path, size) handed to the content filters
    cVerdict,       \* what shouldFetch and shouldFetchContent returned for it
    fItems,         \* the tree items of the repository whose contents are fanned out
    fPc,            \* the fan-out: "tree", or the path that ran it, "inline" or "worker"
    fFailed,        \* the indices of the items whose content fetch failed
    fFiles,         \* the file set the fan-out ended with
    guestUsage,     \* the GuestUsage table: deviceId -> [count, ipAddress]
    guestLast,      \* the last call of checkAndIncrementGuestUsage and what it returned
    guestCalls,     \* how many calls of it were made
    hStored,        \* the browser's cache entry "guest:history": a list of records
    hAdded,         \* the record the last call of guestHistory.add was given
    cState,         \* the visualiser's status: "idle", "processing", "completed", "failed"
    cError,         \* its error message, Null while there is none
    cJob,           \* the analysisId pollAnalysis was called with, 0 before
    cAttempts       \* pollAnalysis's attempts

jobVars == <<analysis, graphArtifact, req, tick, mainPc>>

graphVars == <<gFiles, gBuilt, gArtifact>>

treeVars == <<tPaths, tBuilt, tTree>>

fanVars == <<cInput, cVerdict, fItems, fPc, fFailed, fFiles>>

guestVars == <<guestUsage, guestLast, guestCalls>>

historyVars == <<hStored, hAdded>>

clientVars == <<cState, cError, cJob, cAttempts>>

sideVars == <<guestVars, historyVars, clientVars>>

vars == <<jobVars, graphVars, treeVars, fanVars, sideVars>>

(***************************************************************************)
(* Bounds and input pools of the graph builder's specifications.           *)
(***************************************************************************)

\* The longest FileRecord list handed to buildGraph.
MaxFiles == 3

\* The longest list of the end-to-end scenario's records handed to buildGraph.
MaxScenarioFiles == 4

\* The longest path list handed to buildFileTree.
MaxPaths == 3

Decl(form, spec) == [form |-> form, spec |-> spec]

FileRecord(path, content) ==
    [path |-> path, hasContent |-> content # <<>>, content |-> content, size |-> NoSize]

GraphPaths == {"b.ts", "lib/b.ts", "lib/c.tsx"}

\* Texts: none; two routes to one file plus a self reference; external packages
\* only (one of them, lib/b, names a file of the snapshot when read as a path);
\* an alias, a re-export and a URL.
GraphContents ==
    { <<>>,
      << Decl("import", "./b"), Decl("import", "@/lib/b"), Decl("require", "./b.ts"),
         Decl("import", "./c") >>,
      << Decl("import", "react"), Decl("require", "lib/b"), Decl("import", "next/link") >>,
      << Decl("import", "@/b"), Decl("export", "./c"), Decl("import", "https://esm.sh/x") >> }

GraphPool == {FileRecord(p, c) : p \in GraphPaths, c \in GraphContents}

\* The end-to-end scenario: a imports @/b and @/c, b imports @/d, c imports an
\* external package, d imports nothing; with and without an extension.
Scenario(ext) ==
    << FileRecord("a" \o ext, <<Decl("import", "@/b"), Decl("import", "@/c")>>),
       FileRecord("b" \o ext, <<Decl("import", "@/d")>>),
       FileRecord("c" \o ext, <<Decl("import", "react")>>),
       FileRecord("d" \o ext, <<>>) >>

ScenarioExts == {"", ".ts"}

ScenarioPool == {Scenario(ext)[i] : ext \in ScenarioExts, i \in 1..4}

\* The longest list of the resolver's records handed to buildGraph.
MaxResolveFiles == 3

\* The files a specifier for the stem lib/b can resolve to, and b.ts at the root.
ResolveTargets ==
    {"lib/b", "lib/b.ts", "lib/b.tsx", "lib/b.js", "lib/b/index.ts", "lib/b/index.tsx", "b.ts"}

\* The referencing files, one specifier each: relative from a directory (plain and
\* with a doubled separator), aliased, and relative from the snapshot root.
ResolveImporters ==
    { FileRecord("lib/a.ts", <<Decl("import", "./b")>>),
      FileRecord("lib/a.ts", <<Decl("import", ".//b")>>),
      FileRecord("a.ts", <<Decl("import", "@/lib/b")>>),
      FileRecord("a.ts", <<Decl("import", "./lib/b")>>),
      FileRecord("a.ts", <<Decl("import", "./b")>>) }

ResolvePool == {FileRecord(p, <<>>) : p \in ResolveTargets} \cup ResolveImporters

\* The longest list of the edge-type records handed to buildGraph.
MaxTypeFiles == 3

\* The files the specifiers below resolve to.
TypeTargets == {"lib/b.ts", "lib/require.ts"}

\* The referencing files: each declaration form on a plain specifier and on one whose
\* text holds the word require.
TypeImporters ==
    { FileRecord("lib/a.ts", <<Decl(form, spec)>>) :
        form \in {"import", "require", "export"}, spec \in {"./b", "./require"} }

TypePool == {FileRecord(p, <<>>) : p \in TypeTargets} \cup TypeImporters

\* The longest list of the parent-directory records handed to buildGraph.
MaxParentFiles == 3

\* The files the specifiers below denote, and a file whose name is three dots and an
\* extension. None of the paths has a '.' or a '..' segment.
ParentTargets == {"b.ts", "lib/b.ts", "lib/...ts", "lib/x/b.ts"}

\* The referencing files, one specifier each: with a parent segment from the root,
\* from a directory and from a directory below it, and one without for comparison.
ParentImporters ==
    { FileRecord("a.ts", <<Decl("import", "../b")>>),
      FileRecord("lib/a.ts", <<Decl("import", "../b")>>),
      FileRecord("lib/a.ts", <<Decl("import", "./../b")>>),
      FileRecord("lib/a.ts", <<Decl("import", "..")>>),
      FileRecord("lib/x/c.ts", <<Decl("import", "../b")>>),
      FileRecord("lib/x/c.ts", <<Decl("import", "../../b")>>),
      FileRecord("lib/e.ts", <<Decl("import", "./b")>>) }

ParentPool == {FileRecord(p, <<>>) : p \in ParentTargets} \cup ParentImporters

\* The longest list of the role classifier's records handed to buildGraph.
MaxRoleFiles == 2

\* Paths for the role classifier: conventional names, names that two rules match
\* (the .env rule matches anywhere in the path), names no rule matches with and
\* without a source extension, in upper case and without any dot.
RolePaths ==
    { "app/page.tsx", "app/layout.jsx", "homepage.js", ".env/page.tsx", ".env/layout.ts",
      "x.env.test.ts", ".env.local", "docs/README.MD", "src/a.TSX", "lib/a.mjs",
      "main.py", "cmd/main.go", "Makefile", "ts" }

RolePool == {FileRecord(p, <<>>) : p \in RolePaths}

TreePaths == {"a", "a/b", "a/c.ts", "d/e/f.ts", "d/g.py", "/a"}

EmptyArtifact == [nodes |-> <<>>, edges |-> <<>>, fileTree |-> TreeRoot, fileRoles |-> <<>>]

(***************************************************************************)
(* Bounds and inputs of the job state machine.                             *)
(***************************************************************************)

\* The number of analyses ever created.
MaxJobs == 2

\* The number of POST /api/analyse requests being handled at once.
MaxRequests == 1

\* The number of invocations of the worker's poll() in flight at once: main()
\* awaits the first, then setInterval starts one every POLL_INTERVAL_MS whether
\* or not the earlier ones have returned.
MaxTicks == 1

Reqs == 1..MaxRequests

Ticks == 1..MaxTicks

\* The number of invocations of poll() in flight at once when the worker runs
\* alone, without inline requests beside it.
MaxOverlap == 2

WorkerTicks == 1..MaxOverlap

\* Every invocation slot of poll().
AllTicks == Ticks \cup WorkerTicks

\* const MAX_FILES (the inline pipeline)
MAX_FILES == 100

\* const MAX_FILES_TO_ANALYSE (the worker)
MAX_FILES_TO_ANALYSE == 200

\* const MAX_FILE_SIZE (the inline pipeline)
MAX_FILE_SIZE == 100000

\* const MAX_FILE_SIZE_BYTES (the worker)
MAX_FILE_SIZE_BYTES == 100000

ANALYSABLE_EXTENSIONS ==
    {"ts", "tsx", "js", "jsx", "mjs", "cjs", "py", "go", "rs", "rb", "java", "cs", "cpp", "c"}

\* The worker's ANALYSABLE_EXTENSIONS, a set of its own.
ANALYSABLE_EXTENSIONS_WORKER ==
    {"ts", "tsx", "js", "jsx", "mjs", "cjs", "py", "go", "rs", "rb", "java", "cs", "cpp", "c"}

\* Who submits: a signed-in user (userId set) to the version of POST that leaves
\* the job to the worker, a guest device (guestId set) to the inline version.
SignedIn == [userId |-> "u1", guestId |-> Null]

Guest == [userId |-> Null, guestId |-> "g1"]

\* What the code-hosting API holds of the repository: per blob its path, size and text.
TreeItem(path, size, text) == [path |-> path, size |-> size, text |-> text]

RepoTree ==
    << TreeItem("lib/c.tsx", 80, <<Decl("import", "react"), Decl("import", "@/b")>>),
       TreeItem("b.ts", 100001, <<Decl("import", "./lib/c")>>) >>

\* The messages of the errors the pipeline can raise.
FetchError == "GitHub tree error: 404"

DbError == "Can't reach database server"

(***************************************************************************)
(* The content filter and the content fan-out.                             *)
(***************************************************************************)

\* shouldFetchContent, the worker's filter.
shouldFetchContent(filePath, fileSize) ==
    IF fileSize # NoSize /\ fileSize # 0 /\ fileSize > MAX_FILE_SIZE_BYTES THEN FALSE
    ELSE LET ext == ExtOf(filePath)
         IN  ext # "" /\ ext \in ANALYSABLE_EXTENSIONS_WORKER

\* shouldFetch, the inline pipeline's filter.
shouldFetch(path, size) ==
    IF size # NoSize /\ size # 0 /\ size > MAX_FILE_SIZE THEN FALSE
    ELSE LET ext == ExtOf(path)
         IN  ext # "" /\ ext \in ANALYSABLE_EXTENSIONS

\* treeItems.slice(0, limit)
Slice(items, limit) == SubSeq(items, 1, IF Len(items) < limit THEN Len(items) ELSE limit)

\* The indices of the items whose content is asked for.
Eligible(items) == {i \in 1..Len(items) : shouldFetch(items[i].path, items[i].size)}

\* The indices of the items whose content the worker asks for.
EligibleForWorker(items) ==
    {i \in 1..Len(items) : shouldFetchContent(items[i].path, items[i].size)}

\* What is pushed for item i: its path and size, and its text when it was asked
\* for and came (an empty text counts as no content wherever it is tested).
FileOf(items, i, got) ==
    [path |-> items[i].path,
     hasContent |-> got /\ items[i].text # <<>>,
     content |-> IF got THEN items[i].text ELSE <<>>,
     size |-> items[i].size]

RECURSIVE KeepFetched(_, _, _)
\* A fan-out that gives up a file whose fetch failed: only the others are pushed.
KeepFetched(items, failed, i) ==
    IF i > Len(items) THEN <<>>
    ELSE (IF i \in failed THEN <<>>
          ELSE <<FileOf(items, i, i \in Eligible(items))>>)
         \o KeepFetched(items, failed, i + 1)

FilesAfterDroppingFailed(items, failed) == KeepFetched(items, failed, 1)

\* The file set after the inline fan-out in which the fetches of the items in
\* failed returned null (a non-OK response or a thrown error, caught per file).
FilesAfter(items, failed) ==
    [i \in 1..Len(items) |-> FileOf(items, i, i \in Eligible(items) /\ i \notin failed)]

\* The same for the worker's loop.
FilesAfterWorker(items, failed) ==
    [i \in 1..Len(items) |->
        FileOf(items, i, i \in EligibleForWorker(items) /\ i \notin failed)]

\* Every file set a fan-out over the items can end with.
FanOut(items) == {FilesAfter(items, failed) : failed \in SUBSET Eligible(items)}

FanOutWorker(items) ==
    {FilesAfterWorker(items, failed) : failed \in SUBSET EligibleForWorker(items)}

\* What the worker's loop can end with on the repository: the tree cut to
\* MAX_FILES_TO_ANALYSE items, then the fetches.
WorkerFileSets == FanOutWorker(Slice(RepoTree, MAX_FILES_TO_ANALYSE))

(***************************************************************************)
(* The tables.                                                             *)
(***************************************************************************)

Jobs == 1..Len(analysis)

\* db.analysis.create({ data: { ..., status: "PENDING" } })
NewAnalysis(who) ==
    [status |-> "PENDING", error |-> Null, userId |-> who.userId, guestId |-> who.guestId]

\* An update with a guard: the row is written only when the move from its status
\* is one of the state machine's.
SetStatusGuarded(table, id, status) ==
    IF <<table[id].status, status>> \in { <<"PENDING", "PROCESSING">>,
                                          <<"PROCESSING", "COMPLETED">>,
                                          <<"PROCESSING", "FAILED">> }
    THEN [table EXCEPT ![id].status = status]
    ELSE table

\* db.analysis.update({ where: { id }, data: { status } })
SetStatus(table, id, status) == [table EXCEPT ![id].status = status]

\* db.analysis.update({ where: { id }, data: { status: "FAILED", error } })
SetFailed(table, id, message) ==
    [table EXCEPT ![id].status = "FAILED", ![id].error = message]

\* db.analysis.findFirst({ where: { status }, orderBy: { createdAt: "asc" } }): its id, 0 for null
FindFirst(status) ==
    IF \E j \in Jobs : analysis[j].status = status
    THEN CHOOSE j \in Jobs :
            /\ analysis[j].status = status
            /\ \A k \in 1..(j - 1) : analysis[k].status # status
    ELSE 0

\* The indices of the GraphArtifact rows of one analysis.
ArtifactRows(id) == {i \in 1..Len(graphArtifact) : graphArtifact[i].analysisId = id}

\* A create in the place of the upsert: a row is added whatever the table holds.
UpsertAlwaysCreates(table, id, data) == Append(table, [analysisId |-> id, data |-> data])

\* An upsert that replaces the table by the one row it writes: the artifacts of the
\* other analyses are removed.
UpsertReplacingTable(table, id, data) == <<[analysisId |-> id, data |-> data]>>

\* db.graphArtifact.upsert({ where: { analysisId }, create: {...}, update: {...} }):
\* the row of the analysis is overwritten, or created when there is none.
Upsert(table, id, data) ==
    IF \E i \in 1..Len(table) : table[i].analysisId = id
    THEN [i \in 1..Len(table) |->
            IF table[i].analysisId = id THEN [table[i] EXCEPT !.data = data] ELSE table[i]]
    ELSE Append(table, [analysisId |-> id, data |-> data])

(***************************************************************************)
(* POST /api/analyse, the inline version: the handler and runAnalysis.     *)
(*                                                                         *)
(* A slot is [pc, id, msg, cause, files, wrote]: id the analysis it works  *)
(* on, msg the caught error's message, cause the stage that threw ("none"  *)
(* while nothing has), files the file set after the fan-out, wrote whether *)
(* its write of FAILED succeeded. Every await is a step of its own; each   *)
(* database call either succeeds or throws.                                *)
(***************************************************************************)

Idle == [pc |-> "idle", id |-> 0, msg |-> Null, cause |-> "none", files |-> <<>>,
         wrote |-> FALSE, target |-> 0]

\* A slot whose handler has finished: it keeps the analysis, the stage that threw,
\* the analysis its catch wrote to and whether FAILED was written, for the response
\* or the log.
Finished(slot, cause, wrote) ==
    [Idle EXCEPT !.pc = "done", !.id = slot.id, !.cause = cause, !.wrote = wrote,
                 !.target = slot.target]

(***************************************************************************)
(* Guest usage: checkAndIncrementGuestUsage over the GuestUsage table.     *)
(*                                                                         *)
(* The table is a function from the deviceIds that have a row to the row   *)
(* [count, ipAddress]. A call returns the table it leaves and its result   *)
(* [allowed, code, count]; code is Undefined in the allowed variant.       *)
(***************************************************************************)

\* How many calls a behaviour makes.
MaxGuestCalls == 5

Devices == {"device-1", "device-2"}

\* The optional ipAddress argument.
IpAddresses == {Undefined, "10.0.0.1", "10.0.0.2"}

NoRows == [d \in {} |-> [count |-> 0, ipAddress |-> Null]]

NoResult == [allowed |-> FALSE, code |-> Undefined, count |-> 0]

\* The table with the row of deviceId set to row.
WithRow(table, deviceId, row) ==
    [d \in DOMAIN table \cup {deviceId} |-> IF d = deviceId THEN row ELSE table[d]]

\* data: {deviceId, ipAddress, count: 1}; an ipAddress left undefined is stored as null.
CreatedRow(ipAddress) ==
    [count |-> 1, ipAddress |-> IF ipAddress = Undefined THEN Null ELSE ipAddress]

\* count: {increment: 1} with the ipAddress replaced when one is given. (`ipAddress ??
\* undefined` leaves the column alone and `ipAddress ?? existing.ipAddress` writes
\* back what it holds: the same row.)
IncrementedRow(row, ipAddress) ==
    [count |-> row.count + 1,
     ipAddress |-> IF ipAddress = Undefined THEN row.ipAddress ELSE ipAddress]

\* src/lib/guest.ts, the module "@/lib/guest" that route.ts imports. Its GUEST_LIMIT is
\* Infinity and the function never reads it: one upsert, and every call is allowed.
checkAndIncrementGuestUsage(table, deviceId, ipAddress) ==
    LET record == IF deviceId \in DOMAIN table
                  THEN IncrementedRow(table[deviceId], ipAddress)
                  ELSE CreatedRow(ipAddress)
    IN  [table |-> WithRow(table, deviceId, record),
         result |-> [allowed |-> TRUE, code |-> Undefined, count |-> record.count]]

\* The limit of the other copy of the module (part_017).
GUEST_LIMIT == 3

\* part_017, the copy of the module that enforces GUEST_LIMIT: findUnique, then create,
\* refuse or update.
checkAndIncrementGuestUsageWithLimit(table, deviceId, ipAddress) ==
    IF deviceId \notin DOMAIN table
    THEN [table |-> WithRow(table, deviceId, CreatedRow(ipAddress)),
          result |-> [allowed |-> TRUE, code |-> Undefined, count |-> 1]]
    ELSE LET existing == table[deviceId] IN
         IF existing.count >= GUEST_LIMIT
         THEN [table |-> table,
               result |-> [allowed |-> FALSE, code |-> "GUEST_LIMIT_REACHED",
                           count |-> existing.count]]
         ELSE LET updated == IncrementedRow(existing, ipAddress) IN
              [table |-> WithRow(table, deviceId, updated),
               result |-> [allowed |-> TRUE, code |-> Undefined, count |-> updated.count]]

(***************************************************************************)
(* The browser: the guest history of cache.ts and pollAnalysis.            *)
(*                                                                         *)
(* A history record is [id, nodeCount]: the analysis it is about and the   *)
(* size of its graph (the other fields follow the analysis as well). The   *)
(* cache is best-effort: cacheGet answers null and cacheSet does nothing   *)
(* when localforage throws.                                                *)
(***************************************************************************)

NoRecord == [id |-> 0, nodeCount |-> 0]

GUEST_HISTORY_MAX == 20

\* existing.filter((r) => r.id !== id)
RECURSIVE WithoutId(_, _)
WithoutId(records, id) ==
    IF Len(records) = 0 THEN <<>>
    ELSE (IF records[1].id # id THEN <<records[1]>> ELSE <<>>)
         \o WithoutId(Tail(records), id)

\* xs.slice(0, n)
Take(xs, n) == SubSeq(xs, 1, IF Len(xs) < n THEN Len(xs) ELSE n)

\* An add that keeps the earlier record of the same id.
guestHistoryAddKeepingOld(stored, record, readOk, writeOk) ==
    LET existing == IF readOk THEN stored ELSE <<>>
        updated == Take(<<record>> \o existing, GUEST_HISTORY_MAX)
    IN  IF writeOk THEN updated ELSE stored

\* guestHistory.add(record) on the stored list: getAll (the list, or [] when the read
\* failed), the new list, cacheSet (nothing stored when the write failed).
guestHistoryAdd(stored, record, readOk, writeOk) ==
    LET existing == IF readOk THEN stored ELSE <<>>
        updated == Take(<<record>> \o WithoutId(existing, record.id), GUEST_HISTORY_MAX)
    IN  IF writeOk THEN updated ELSE stored

Init ==
    /\ analysis = <<>>
    /\ graphArtifact = <<>>
    /\ req = [r \in Reqs |-> Idle]
    /\ tick = [t \in AllTicks |-> Idle]
    /\ mainPc = "start"
    /\ gFiles = <<>>
    /\ gBuilt = FALSE
    /\ gArtifact = EmptyArtifact
    /\ tPaths = <<>>
    /\ tBuilt = FALSE
    /\ tTree = TreeRoot
    /\ cInput = [path |-> "", size |-> NoSize]
    /\ cVerdict = [applied |-> FALSE, inline |-> FALSE, worker |-> FALSE]
    /\ fItems = <<>>
    /\ fPc = "tree"
    /\ fFailed = {}
    /\ fFiles = <<>>
    /\ guestUsage = NoRows
    /\ guestLast = [deviceId |-> Undefined, result |-> NoResult]
    /\ guestCalls = 0
    /\ hStored = <<>>
    /\ hAdded = NoRecord
    /\ cState = "idle"
    /\ cError = Null
    /\ cJob = 0
    /\ cAttempts = 0

\* POST, the version that leaves the job to the worker: db.analysis.create, then the
\* response {analysisId, status: "PENDING"}.
Submit ==
    /\ Len(analysis) < MaxJobs
    /\ analysis' = Append(analysis, NewAnalysis(SignedIn))
    /\ UNCHANGED <<graphArtifact, req, tick, mainPc, graphVars, treeVars, fanVars, sideVars>>

\* POST, the inline version, up to db.analysis.create.
PostCreate(r) ==
    /\ req[r].pc = "idle"
    /\ Len(analysis) < MaxJobs
    /\ analysis' = Append(analysis, NewAnalysis(Guest))
    /\ req' = [req EXCEPT ![r] = [Idle EXCEPT !.pc = "created", !.id = Len(analysis) + 1]]
    /\ UNCHANGED <<graphArtifact, tick, mainPc, graphVars, treeVars, fanVars, sideVars>>

\* runAnalysis: the update to PROCESSING, outside the try. When it throws, POST's catch answers 500.
RunMarkProcessing(r) ==
    /\ req[r].pc = "created"
    /\ \E ok \in BOOLEAN :
        IF ok
        THEN /\ analysis' = SetStatus(analysis, req[r].id, "PROCESSING")
             /\ req' = [req EXCEPT ![r].pc = "processing"]
        ELSE /\ req' = [req EXCEPT ![r] = Finished(req[r], "mark", FALSE)]
             /\ UNCHANGED analysis
    /\ UNCHANGED <<graphArtifact, tick, mainPc, graphVars, treeVars, fanVars, sideVars>>

\* runAnalysis: fetchTree, the slice and the fan-out (Promise.allSettled over fetchFile).
RunFetch(r) ==
    /\ req[r].pc = "processing"
    /\ \/ \E files \in FanOut(Slice(RepoTree, MAX_FILES)) :
            req' = [req EXCEPT ![r].pc = "fetched", ![r].files = files]
       \/ req' = [req EXCEPT ![r].pc = "catch", ![r].cause = "fetch", ![r].msg = FetchError]
    /\ UNCHANGED <<analysis, graphArtifact, tick, mainPc, graphVars, treeVars, fanVars, sideVars>>

\* runAnalysis: buildGraph and graphArtifact.upsert.
RunStore(r) ==
    /\ req[r].pc = "fetched"
    /\ \E ok \in BOOLEAN :
        IF ok
        THEN /\ graphArtifact' = Upsert(graphArtifact, req[r].id, buildGraph(req[r].files))
             /\ req' = [req EXCEPT ![r].pc = "stored"]
        ELSE /\ req' = [req EXCEPT ![r].pc = "catch", ![r].cause = "store", ![r].msg = DbError]
             /\ UNCHANGED graphArtifact
    /\ UNCHANGED <<analysis, tick, mainPc, graphVars, treeVars, fanVars, sideVars>>

\* runAnalysis: the update to COMPLETED.
RunComplete(r) ==
    /\ req[r].pc = "stored"
    /\ \E ok \in BOOLEAN :
        IF ok
        THEN /\ analysis' = SetStatus(analysis, req[r].id, "COMPLETED")
             /\ req' = [req EXCEPT ![r] = Finished(req[r], "none", FALSE)]
        ELSE /\ req' = [req EXCEPT ![r].pc = "catch", ![r].cause = "complete", ![r].msg = DbError]
             /\ UNCHANGED analysis
    /\ UNCHANGED <<graphArtifact, tick, mainPc, graphVars, treeVars, fanVars, sideVars>>

\* runAnalysis's catch: the update to FAILED with the message, its own failure
\* swallowed (.catch(() => {})), then the error thrown on to POST's catch.
RunCatch(r) ==
    /\ req[r].pc = "catch"
    /\ \E ok \in BOOLEAN :
        /\ analysis' = IF ok THEN SetFailed(analysis, req[r].id, req[r].msg) ELSE analysis
        /\ req' = [req EXCEPT ![r] = Finished(req[r], req[r].cause, ok)]
    /\ UNCHANGED <<graphArtifact, tick, mainPc, graphVars, treeVars, fanVars, sideVars>>

\* POST returns: {analysisId, status: "PENDING"} after runAnalysis, or the 500 of its catch.
PostReturn(r) ==
    /\ req[r].pc = "done"
    /\ req' = [req EXCEPT ![r] = Idle]
    /\ UNCHANGED <<analysis, graphArtifact, tick, mainPc, graphVars, treeVars, fanVars, sideVars>>

(***************************************************************************)
(* The worker: main, poll and processAnalysis.                             *)
(*                                                                         *)
(* A slot is one invocation of poll(); target is the analysis its catch    *)
(* found in PROCESSING.                                                    *)
(***************************************************************************)

\* Whether main() lets an invocation start in slot t: the awaited first poll, or,
\* once it has returned and setInterval is set, a tick of the interval.
MayStart(t) == (mainPc = "start" /\ t = 1) \/ mainPc = "interval"

\* poll: findFirst of the oldest PENDING analysis; return when there is none.
PollFind(t) ==
    /\ tick[t].pc = "idle"
    /\ MayStart(t)
    /\ mainPc' = IF mainPc = "start" THEN "firstPoll" ELSE mainPc
    /\ \E ok \in BOOLEAN :
        tick' = [tick EXCEPT ![t] =
            IF ~ok THEN [Idle EXCEPT !.pc = "catch", !.cause = "find", !.msg = DbError]
            ELSE IF FindFirst("PENDING") = 0 THEN [Idle EXCEPT !.pc = "done"]
            ELSE [Idle EXCEPT !.pc = "found", !.id = FindFirst("PENDING")]]
    /\ UNCHANGED <<analysis, graphArtifact, req, graphVars, treeVars, fanVars, sideVars>>

\* processAnalysis: the update to PROCESSING.
ProcMarkProcessing(t) ==
    /\ tick[t].pc = "found"
    /\ \E ok \in BOOLEAN :
        IF ok
        THEN /\ analysis' = SetStatus(analysis, tick[t].id, "PROCESSING")
             /\ tick' = [tick EXCEPT ![t].pc = "processing"]
        ELSE /\ tick' = [tick EXCEPT ![t].pc = "catch", ![t].cause = "mark", ![t].msg = DbError]
             /\ UNCHANGED analysis
    /\ UNCHANGED <<graphArtifact, req, mainPc, graphVars, treeVars, fanVars, sideVars>>

\* processAnalysis: findUnique, fetchGithubTree, the slice and the loop over fetchFileContent.
ProcFetch(t) ==
    /\ tick[t].pc = "processing"
    /\ \/ \E files \in WorkerFileSets :
            tick' = [tick EXCEPT ![t].pc = "fetched", ![t].files = files]
       \/ tick' = [tick EXCEPT ![t].pc = "catch", ![t].cause = "fetch", ![t].msg = FetchError]
    /\ UNCHANGED <<analysis, graphArtifact, req, mainPc, graphVars, treeVars, fanVars, sideVars>>

\* processAnalysis: buildGraph and graphArtifact.upsert.
ProcStore(t) ==
    /\ tick[t].pc = "fetched"
    /\ \E ok \in BOOLEAN :
        IF ok
        THEN /\ graphArtifact' = Upsert(graphArtifact, tick[t].id, buildGraph(tick[t].files))
             /\ tick' = [tick EXCEPT ![t].pc = "stored"]
        ELSE /\ tick' = [tick EXCEPT ![t].pc = "catch", ![t].cause = "store", ![t].msg = DbError]
             /\ UNCHANGED graphArtifact
    /\ UNCHANGED <<analysis, req, mainPc, graphVars, treeVars, fanVars, sideVars>>

\* processAnalysis: the update to COMPLETED.
ProcComplete(t) ==
    /\ tick[t].pc = "stored"
    /\ \E ok \in BOOLEAN :
        IF ok
        THEN /\ analysis' = SetStatus(analysis, tick[t].id, "COMPLETED")
             /\ tick' = [tick EXCEPT ![t] = Finished(tick[t], "none", FALSE)]
        ELSE /\ tick' = [tick EXCEPT ![t].pc = "catch", ![t].cause = "complete", ![t].msg = DbError]
             /\ UNCHANGED analysis
    /\ UNCHANGED <<graphArtifact, req, mainPc, graphVars, treeVars, fanVars, sideVars>>

\* The analysis poll's catch takes for the failed one: the oldest in PROCESSING.
CatchTarget == FindFirst("PROCESSING")

\* poll's catch: findFirst of the oldest PROCESSING analysis; nothing more when
\* there is none or when the query throws (the inner catch ignores it).
PollCatchFind(t) ==
    /\ tick[t].pc = "catch"
    /\ \E ok \in BOOLEAN :
        tick' = [tick EXCEPT ![t] =
            IF ok /\ CatchTarget # 0
            THEN [tick[t] EXCEPT !.pc = "catchFound", !.target = CatchTarget]
            ELSE Finished(tick[t], tick[t].cause, FALSE)]
    /\ UNCHANGED <<analysis, graphArtifact, req, mainPc, graphVars, treeVars, fanVars, sideVars>>

\* poll's catch: the update of the analysis found to FAILED with the message,
\* its own failure ignored.
PollCatchMark(t) ==
    /\ tick[t].pc = "catchFound"
    /\ \E ok \in BOOLEAN :
        /\ analysis' = IF ok THEN SetFailed(analysis, tick[t].target, tick[t].msg)
                       ELSE analysis
        /\ tick' = [tick EXCEPT ![t] = Finished(tick[t], tick[t].cause, ok)]
    /\ UNCHANGED <<graphArtifact, req, mainPc, graphVars, treeVars, fanVars, sideVars>>

\* poll returns; main, if it awaited this first poll, sets the interval.
PollReturn(t) ==
    /\ tick[t].pc = "done"
    /\ tick' = [tick EXCEPT ![t] = Idle]
    /\ mainPc' = IF mainPc = "firstPoll" THEN "interval" ELSE mainPc
    /\ UNCHANGED <<analysis, graphArtifact, req, graphVars, treeVars, fanVars, sideVars>>

(***************************************************************************)
(* GET /api/analysis/:id                                                   *)
(***************************************************************************)

\* Who asks: the session's user id (Null when signed out) and the guestId of the query.
Requesters ==
    {[userId |-> u, guestId |-> g] : u \in {Null, "u1", "u2"}, g \in {Null, "g1", "g2"}}

\* A handler without the access test: every known job is answered with its data.
GETWithoutAccessTest(id, who) ==
    IF id \notin Jobs
    THEN [code |-> 404, status |-> Null, error |-> Null, hasArtifact |-> FALSE,
          artifact |-> EmptyArtifact]
    ELSE [code |-> 200, status |-> analysis[id].status, error |-> analysis[id].error,
          hasArtifact |-> ArtifactRows(id) # {},
          artifact |-> IF ArtifactRows(id) # {}
                       THEN graphArtifact[CHOOSE i \in ArtifactRows(id) : TRUE].data
                       ELSE EmptyArtifact]

\* The response: its HTTP status and, on 200, the job's status, error and artifact
\* (hasArtifact FALSE for artifact: null).
GET(id, who) ==
    IF id \notin Jobs
    THEN [code |-> 404, status |-> Null, error |-> Null, hasArtifact |-> FALSE,
          artifact |-> EmptyArtifact]
    ELSE LET row == analysis[id]
             isOwner == who.userId # Null /\ row.userId = who.userId
             isGuest == who.guestId # Null /\ row.guestId = who.guestId
             isPublic == row.status = "COMPLETED"
         IN  IF ~isOwner /\ ~isGuest /\ ~isPublic
             THEN [code |-> 401, status |-> Null, error |-> Null, hasArtifact |-> FALSE,
                   artifact |-> EmptyArtifact]
             ELSE [code |-> 200, status |-> row.status, error |-> row.error,
                   hasArtifact |-> ArtifactRows(id) # {},
                   artifact |-> IF ArtifactRows(id) # {}
                                THEN graphArtifact[CHOOSE i \in ArtifactRows(id) : TRUE].data
                                ELSE EmptyArtifact]

(***************************************************************************)
(* The graph builder's operations.                                         *)
(***************************************************************************)

\* The caller puts one more record of the pool on the list.
AddFile(pool, max) ==
    /\ ~gBuilt
    /\ Len(gFiles) < max
    /\ \E f \in pool : gFiles' = Append(gFiles, f)
    /\ UNCHANGED <<gBuilt, gArtifact, jobVars, treeVars, fanVars, sideVars>>

AddGraphFile == AddFile(GraphPool, MaxFiles)

AddScenarioFile == AddFile(ScenarioPool, MaxScenarioFiles)

AddResolveFile == AddFile(ResolvePool, MaxResolveFiles)

AddTypeFile == AddFile(TypePool, MaxTypeFiles)

AddParentFile == AddFile(ParentPool, MaxParentFiles)

AddRoleFile == AddFile(RolePool, MaxRoleFiles)

\* buildGraph(files)
BuildGraph ==
    /\ ~gBuilt
    /\ gBuilt' = TRUE
    /\ gArtifact' = buildGraph(gFiles)
    /\ UNCHANGED <<gFiles, jobVars, treeVars, fanVars, sideVars>>

\* The caller puts one more path of the pool on the list.
AddPath ==
    /\ ~tBuilt
    /\ Len(tPaths) < MaxPaths
    /\ \E p \in TreePaths : tPaths' = Append(tPaths, p)
    /\ UNCHANGED <<tBuilt, tTree, jobVars, graphVars, fanVars, sideVars>>

\* buildFileTree(paths)
BuildFileTree ==
    /\ ~tBuilt
    /\ tBuilt' = TRUE
    /\ tTree' = buildFileTree(tPaths)
    /\ UNCHANGED <<tPaths, jobVars, graphVars, fanVars, sideVars>>

(***************************************************************************)
(* The content filters and the fan-out on their own.                       *)
(***************************************************************************)

\* The longest tree whose contents are fanned out.
MaxTreeItems == 3

\* Paths for the filters: analysed and other extensions, upper case, a dot in a
\* directory name only, a trailing dot, no dot at all.
FilterPaths ==
    { "a.ts", "src/a.TSX", "lib/a.mjs", "main.py", "cmd/main.go", "a.c", "a.cpp",
      "logo.png", "README.md", "v1.go/run", "notes.", "Makefile", "go", "src/c" }

\* Sizes: undefined, zero, small, the ceiling, and one more.
FilterSizes == {NoSize, 0, 80, 100000, 100001}

\* The tree items of the fan-out: two files that reference each other, a Python
\* file, a file over the ceiling, an image.
FanPool ==
    { TreeItem("lib/a.ts", 80, <<Decl("import", "./b"), Decl("import", "@/lib/big")>>),
      TreeItem("lib/b.ts", NoSize, <<Decl("import", "./a")>>),
      TreeItem("lib/c.py", 0, <<Decl("pyimport", "os")>>),
      TreeItem("lib/big.ts", 100001, <<Decl("import", "./a")>>),
      TreeItem("img/logo.png", 80, <<>>) }

\* A caller hands a path and a size to the filters.
ChooseInput ==
    /\ cInput.path = ""
    /\ \E p \in FilterPaths, s \in FilterSizes : cInput' = [path |-> p, size |-> s]
    /\ UNCHANGED <<cVerdict, fItems, fPc, fFailed, fFiles, jobVars, graphVars, treeVars, sideVars>>

\* shouldFetch(path, size) and shouldFetchContent(path, size)
ApplyFilters ==
    /\ cInput.path # ""
    /\ ~cVerdict.applied
    /\ cVerdict' = [applied |-> TRUE,
                    inline |-> shouldFetch(cInput.path, cInput.size),
                    worker |-> shouldFetchContent(cInput.path, cInput.size)]
    /\ UNCHANGED <<cInput, fItems, fPc, fFailed, fFiles, jobVars, graphVars, treeVars, sideVars>>

\* fetchTree returns one more item.
AddTreeItem ==
    /\ fPc = "tree"
    /\ Len(fItems) < MaxTreeItems
    /\ \E item \in FanPool : fItems' = Append(fItems, item)
    /\ UNCHANGED <<cInput, cVerdict, fPc, fFailed, fFiles, jobVars, graphVars, treeVars, sideVars>>

\* runAnalysis: the slice and the Promise.allSettled over the items.
FanOutInline ==
    /\ fPc = "tree"
    /\ \E failed \in SUBSET Eligible(Slice(fItems, MAX_FILES)) :
          /\ fFailed' = failed
          /\ fFiles' = FilesAfter(Slice(fItems, MAX_FILES), failed)
    /\ fPc' = "inline"
    /\ UNCHANGED <<cInput, cVerdict, fItems, jobVars, graphVars, treeVars, sideVars>>

\* processAnalysis: the slice and the loop over the items.
FanOutByWorker ==
    /\ fPc = "tree"
    /\ \E failed \in SUBSET EligibleForWorker(Slice(fItems, MAX_FILES_TO_ANALYSE)) :
          /\ fFailed' = failed
          /\ fFiles' = FilesAfterWorker(Slice(fItems, MAX_FILES_TO_ANALYSE), failed)
    /\ fPc' = "worker"
    /\ UNCHANGED <<cInput, cVerdict, fItems, jobVars, graphVars, treeVars, sideVars>>

(***************************************************************************)
(* The browser: startAnalysis, pollAnalysis and the guest history.         *)
(***************************************************************************)

maxAttempts == 60

\* The answers the client can get from GET /api/analysis/:id: the handler's, or the 500
\* of its catch when the database throws.
InternalError ==
    [code |-> 500, status |-> Null, error |-> Null, hasArtifact |-> FALSE,
     artifact |-> EmptyArtifact]

Answers(id, who) == {GET(id, who), InternalError}

\* startAnalysis: the POST that queues the job for the worker; on its answer
\* setStatus("processing") and pollAnalysis(analysisId), or "failed" when the request
\* failed or was refused.
StartAnalysis ==
    /\ cState = "idle"
    /\ \/ /\ Len(analysis) < MaxJobs
          /\ analysis' = Append(analysis, NewAnalysis(SignedIn))
          /\ cState' = "processing"
          /\ cJob' = Len(analysis) + 1
          /\ cError' = Null
       \/ /\ cState' = "failed"
          /\ cError' \in {"Analysis failed", "Network error - could not reach the server"}
          /\ UNCHANGED <<analysis, cJob>>
    /\ UNCHANGED <<graphArtifact, req, tick, mainPc, graphVars, treeVars, fanVars,
                   guestVars, historyVars, cAttempts>>

\* A loop that allows one attempt more.
GoesOnAtTheLimit(attempts) == attempts <= maxAttempts

\* if (attempts < maxAttempts) setTimeout(poll, 3000)
GoesOn(attempts) == attempts < maxAttempts

\* One run of pollAnalysis's poll(): attempts++, the fetch, and what follows from the
\* answer. Only the branch that goes on calls setTimeout(poll, 3000), so a run happens
\* only while the status is still "processing".
PollAnalysis ==
    /\ cState = "processing"
    /\ cAttempts' = cAttempts + 1
    /\ \/ /\ cState' = "failed"
          /\ cError' = "Network error while polling for results"
          /\ UNCHANGED historyVars
       \/ \E data \in Answers(cJob, SignedIn) :
            IF data.code # 200
            THEN /\ cState' = "failed"
                 /\ cError' = "Could not fetch analysis status"
                 /\ UNCHANGED historyVars
            ELSE IF data.status = "COMPLETED" /\ data.hasArtifact
            THEN /\ cState' = "completed"
                 /\ cError' = cError
                 /\ hAdded' = [id |-> cJob, nodeCount |-> Len(data.artifact.nodes)]
                 /\ \E readOk \in BOOLEAN, writeOk \in BOOLEAN :
                      hStored' = guestHistoryAdd(hStored, hAdded', readOk, writeOk)
            ELSE IF data.status = "FAILED"
            THEN /\ cState' = "failed"
                 /\ cError' = "Analysis failed"
                 /\ UNCHANGED historyVars
            ELSE IF GoesOn(cAttempts + 1)
            THEN UNCHANGED <<cState, cError, historyVars>>
            ELSE /\ cState' = "failed"
                 /\ cError' = "Analysis timed out - the worker may not be running"
                 /\ UNCHANGED historyVars
    /\ UNCHANGED <<jobVars, graphVars, treeVars, fanVars, guestVars, cJob>>

\* The analyses a browser completes: their ids are 1..MaxHistoryIds.
MaxHistoryIds == 22

\* The analysis that is completed again after its first time, with a graph of either size.
RepeatedIds == {1}

\* The id of the next new analysis: one more than the newest stored.
NewId ==
    LET ids == {hStored[i].id : i \in 1..Len(hStored)}
    IN  IF ids = {} THEN 1 ELSE 1 + CHOOSE m \in ids : \A i \in ids : i <= m

\* guestHistory.add, called with the record of a new analysis or of a repeated one.
AddToHistory ==
    /\ \E id \in ({NewId} \cup RepeatedIds) \cap 1..MaxHistoryIds, nodeCount \in 1..2 :
          /\ id \notin RepeatedIds => nodeCount = 1
          /\ hAdded' = [id |-> id, nodeCount |-> nodeCount]
    /\ \E readOk \in BOOLEAN, writeOk \in BOOLEAN :
          hStored' = guestHistoryAdd(hStored, hAdded', readOk, writeOk)
    /\ UNCHANGED <<jobVars, graphVars, treeVars, fanVars, guestVars, clientVars>>

(***************************************************************************)
(* Guest usage: calls of checkAndIncrementGuestUsage, one at a time.       *)
(***************************************************************************)

\* A guest request reaches the check of route.ts (lines 286-301) with its device id and
\* the address of its headers: the module route.ts imports serves it.
CheckGuest ==
    /\ guestCalls < MaxGuestCalls
    /\ \E d \in Devices, ip \in IpAddresses :
        LET call == checkAndIncrementGuestUsage(guestUsage, d, ip) IN
        /\ guestUsage' = call.table
        /\ guestLast' = [deviceId |-> d, result |-> call.result]
    /\ guestCalls' = guestCalls + 1
    /\ UNCHANGED <<jobVars, graphVars, treeVars, fanVars, historyVars, clientVars>>

\* The same request served by the copy of the module that enforces the limit.
CheckGuestWithLimit ==
    /\ guestCalls < MaxGuestCalls
    /\ \E d \in Devices, ip \in IpAddresses :
        LET call == checkAndIncrementGuestUsageWithLimit(guestUsage, d, ip) IN
        /\ guestUsage' = call.table
        /\ guestLast' = [deviceId |-> d, result |-> call.result]
    /\ guestCalls' = guestCalls + 1
    /\ UNCHANGED <<jobVars, graphVars, treeVars, fanVars, historyVars, clientVars>>

(***************************************************************************)
(* Specifications.                                                         *)
(***************************************************************************)

Next ==
    \/ Submit
    \/ \E r \in Reqs :
        \/ PostCreate(r)
        \/ RunMarkProcessing(r)
        \/ RunFetch(r)
        \/ RunStore(r)
        \/ RunComplete(r)
        \/ RunCatch(r)
        \/ PostReturn(r)
    \/ \E t \in Ticks :
        \/ PollFind(t)
        \/ ProcMarkProcessing(t)
        \/ ProcFetch(t)
        \/ ProcStore(t)
        \/ ProcComplete(t)
        \/ PollCatchFind(t)
        \/ PollCatchMark(t)
        \/ PollReturn(t)

\* The job state machine: submissions, inline requests and the worker over one database.
Spec == Init /\ [][Next]_vars

GraphNext == AddGraphFile \/ BuildGraph

ScenarioNext == AddScenarioFile \/ BuildGraph

ResolveNext == AddResolveFile \/ BuildGraph

RoleNext == AddRoleFile \/ BuildGraph

TreeNext == AddPath \/ BuildFileTree

FilterNext == ChooseInput \/ ApplyFilters

FanNext == AddTreeItem \/ FanOutInline \/ FanOutByWorker

WorkerNext ==
    \/ Submit
    \/ \E t \in WorkerTicks :
        \/ PollFind(t)
        \/ ProcMarkProcessing(t)
        \/ ProcFetch(t)
        \/ ProcStore(t)
        \/ ProcComplete(t)
        \/ PollCatchFind(t)
        \/ PollCatchMark(t)
        \/ PollReturn(t)

\* A step of poll() in slot t in which no database call throws: the only failure left is
\* the one of the fetch stage (GitHub).
PollStep(t) ==
    \/ PollFind(t) /\ tick'[t].pc # "catch"
    \/ ProcMarkProcessing(t) /\ tick'[t].pc = "processing"
    \/ ProcFetch(t)
    \/ ProcStore(t) /\ tick'[t].pc = "stored"
    \/ ProcComplete(t) /\ tick'[t].pc = "done"
    \/ PollCatchFind(t) /\ (CatchTarget = 0 \/ tick'[t].pc = "catchFound")
    \/ PollCatchMark(t) /\ tick'[t].wrote
    \/ PollReturn(t)

\* Any step of poll() in slot t.
Poll(t) ==
    \/ PollFind(t)
    \/ ProcMarkProcessing(t)
    \/ ProcFetch(t)
    \/ ProcStore(t)
    \/ ProcComplete(t)
    \/ PollCatchFind(t)
    \/ PollCatchMark(t)
    \/ PollReturn(t)

WorkerLiveNext == Submit \/ \E t \in WorkerTicks : PollStep(t)

TypeNext == AddTypeFile \/ BuildGraph

\* The browser that started an analysis, the worker with one poll at a time, and the
\* submissions of others.
ClientNext == StartAnalysis \/ PollAnalysis \/ Submit \/ \E t \in Ticks : Poll(t)

HistoryNext == AddToHistory

ParentNext == AddParentFile \/ BuildGraph

GuestNext == CheckGuest

GuestWithLimitNext == CheckGuestWithLimit

\* buildGraph on FileRecord lists of the pool.
SpecGraph == Init /\ [][GraphNext]_vars

\* buildGraph on lists of the end-to-end scenario's records.
SpecScenario == Init /\ [][ScenarioNext]_vars

\* buildGraph on lists of one-specifier files and the files they can resolve to.
SpecResolve == Init /\ [][ResolveNext]_vars

\* buildGraph on lists of paths for the role classifier.
SpecRole == Init /\ [][RoleNext]_vars

\* buildGraph on lists of files that differ in the declaration form of their specifier.
SpecType == Init /\ [][TypeNext]_vars

\* pollAnalysis against the worker's database.
SpecClient == Init /\ [][ClientNext]_vars

\* guestHistory.add, one call at a time.
SpecHistory == Init /\ [][HistoryNext]_vars

\* buildGraph on lists of files whose specifier has a parent-directory segment.
SpecParent == Init /\ [][ParentNext]_vars

\* buildFileTree on path lists.
SpecTree == Init /\ [][TreeNext]_vars

\* The content filters on (path, size) pairs.
SpecFilter == Init /\ [][FilterNext]_vars

\* The content fan-out on trees of up to MaxTreeItems items.
SpecFanOut == Init /\ [][FanNext]_vars

\* The worker alone over the queue: submissions and overlapping invocations of poll().
SpecWorker == Init /\ [][WorkerNext]_vars

\* Guest usage as route.ts runs it, with the module of src/lib/guest.ts.
SpecGuest == Init /\ [][GuestNext]_vars

\* Guest usage with the copy of the module that enforces the limit.
SpecGuestWithLimit == Init /\ [][GuestWithLimitNext]_vars

\* The worker alone with a database that answers: every await of a poll settles and the
\* interval keeps firing (weak fairness of each slot's steps, which are PollStep steps
\* here and enabled whenever a step of poll is); submissions are free.
SpecWorkerLive ==
    Init /\ [][WorkerLiveNext]_vars /\ \A t \in WorkerTicks : WF_vars(Poll(t))

(***************************************************************************)
(* Properties of the job state machine.                                    *)
(***************************************************************************)

\* Every slot, before and after a step.
SlotSteps ==
    {<<req[r], req'[r]>> : r \in Reqs} \cup {<<tick[t], tick'[t]>> : t \in AllTicks}

\* The status changes the state machine allows.
AllowedMoves ==
    {<<"PENDING", "PROCESSING">>, <<"PROCESSING", "COMPLETED">>, <<"PROCESSING", "FAILED">>}

\* C1: a job's status only ever changes PENDING->PROCESSING, PROCESSING->COMPLETED
\* or PROCESSING->FAILED, so a job that is COMPLETED or FAILED never changes again,
\* under every interleaving of the inline pipeline and the worker.
C1_OnlyAllowedMoves ==
    [][\A j \in Jobs :
          analysis'[j].status # analysis[j].status
              => <<analysis[j].status, analysis'[j].status>> \in AllowedMoves]_vars

\* C2: in every reachable state the poll endpoint returns a non-null artifact only
\* together with the status COMPLETED, whoever asks.
C2_ArtifactOnlyWhenCompleted ==
    \A id \in Jobs, who \in Requesters :
        LET res == GET(id, who)
        IN  res.code = 200 /\ res.hasArtifact => res.status = "COMPLETED"

\* A step in which a run that failed in the top-level fetch writes FAILED, successfully.
WritesFailedAfterFetch(before, after) ==
    /\ before.pc \in {"catch", "catchFound"}
    /\ before.cause = "fetch"
    /\ after.pc = "done"
    /\ after.wrote

\* C3: when the top-level fetch throws while job J is processed and the write of
\* FAILED succeeds, J itself is FAILED after it, with a non-empty error and no
\* artifact row, on the inline path and on the worker path.
C3_FetchFailureFailsTheJob ==
    [][\A step \in SlotSteps :
          WritesFailedAfterFetch(step[1], step[2])
              => /\ analysis'[step[1].id].status = "FAILED"
                 /\ analysis'[step[1].id].error \notin {Null, ""}
                 /\ ~\E i \in 1..Len(graphArtifact') :
                        graphArtifact'[i].analysisId = step[1].id]_vars

\* A step in which a run that went through every stage writes COMPLETED, successfully.
WritesCompleted(before, after) ==
    /\ before.pc = "stored"
    /\ after.pc = "done"
    /\ after.cause = "none"

\* C4: a job whose run completes every stage is COMPLETED after the final write,
\* with a stored artifact and no error recorded, whatever the others did meanwhile.
C4_CompletedRunHasNoError ==
    [][\A step \in SlotSteps :
          WritesCompleted(step[1], step[2])
              => /\ analysis'[step[1].id].status = "COMPLETED"
                 /\ \E i \in 1..Len(graphArtifact') :
                        graphArtifact'[i].analysisId = step[1].id
                 /\ analysis'[step[1].id].error = Null]_vars

\* A step in which a run upserts its artifact, successfully.
UpsertsArtifact(before, after) == before.pc = "fetched" /\ after.pc = "stored"

\* The GraphArtifact rows of an analysis in a table.
RowsIn(table, id) == {i \in 1..Len(table) : table[i].analysisId = id}

IsExternal(specifier) ==
    /\ ~StartsWith(specifier, ".")
    /\ ~StartsWith(specifier, "@/")
    /\ ~StartsWith(specifier, "~/")

\* The record with its declarations of external packages taken out.
WithoutExternals(f) ==
    LET kept == SelectSeq(f.content, LAMBDA d : ~IsExternal(d.spec))
    IN  [f EXCEPT !.content = kept]

\* The (source, target) pairs of the edges, in order.
PairsOf(edges) == [i \in 1..Len(edges) |-> <<edges[i].source, edges[i].target>>]

\* The set of the elements of a sequence.
Range(xs) == {xs[i] : i \in 1..Len(xs)}

\* No element occurs twice in the sequence.
Distinct(xs) == \A i, j \in 1..Len(xs) : i # j => xs[i] # xs[j]

\* C5: every edge buildGraph produces has a source different from its target and a
\* target that is a path of the input list, and the declarations of external
\* packages produce no edge: the edges are those of the list without them.
C5_EdgesStayInside ==
    gBuilt =>
        /\ \A i \in 1..Len(gArtifact.edges) :
              /\ gArtifact.edges[i].source # gArtifact.edges[i].target
              /\ gArtifact.edges[i].target \in Range(PathsOf(gFiles))
        /\ \A i \in 1..Len(gArtifact.edges) :
              \E k \in 1..Len(gFiles) :
                  /\ gFiles[k].path = gArtifact.edges[i].source
                  /\ \E d \in 1..Len(gFiles[k].content) :
                        ~IsExternal(gFiles[k].content[d].spec)
        /\ PairsOf(gArtifact.edges)
               = PairsOf(BuildEdges(<<>>, [k \in 1..Len(gFiles) |-> WithoutExternals(gFiles[k])],
                                    PathsOf(gFiles)))

\* C5's case: a file at the root declares the external package lib/b while lib/b.ts
\* is a file of the snapshot, and the graph has edges.
C5_Witness ==
    /\ gBuilt
    /\ Len(gArtifact.edges) > 0
    /\ "lib/b.ts" \in Range(PathsOf(gFiles))
    /\ \E k \in 1..Len(gFiles) :
          /\ gFiles[k].path = "b.ts"
          /\ \E d \in 1..Len(gFiles[k].content) : gFiles[k].content[d].spec = "lib/b"

\* C6: no two edges of the result have the same (source, target) pair.
C6_NoDuplicateEdges == gBuilt => Distinct(PairsOf(gArtifact.edges))

\* C6's case: a path occurs twice in the input, and one of its records reaches one
\* target through two different specifiers.
C6_Witness ==
    /\ gBuilt
    /\ \E i, j \in 1..Len(gFiles) :
          /\ i < j
          /\ gFiles[i].path = gFiles[j].path
          /\ \E a, b \in 1..Len(gFiles[i].content) :
                /\ gFiles[i].content[a].spec # gFiles[i].content[b].spec
                /\ \E e \in 1..Len(gArtifact.edges) :
                      /\ gArtifact.edges[e].source = gFiles[i].path
                      /\ resolveImportPath(gFiles[i].content[a].spec, gFiles[i].path,
                                           PathsOf(gFiles)) = gArtifact.edges[e].target
                      /\ resolveImportPath(gFiles[i].content[b].spec, gFiles[i].path,
                                           PathsOf(gFiles)) = gArtifact.edges[e].target
          /\ gFiles[j].hasContent

\* The ids of the nodes, in order.
NodeIds == [i \in 1..Len(gArtifact.nodes) |-> gArtifact.nodes[i].id]

\* C7 as stated: the number of nodes is the length of the list, the set of node ids
\* is the set of input paths, and no two nodes share an id.
C7_NodesMatchPathsUniquely ==
    gBuilt =>
        /\ Len(gArtifact.nodes) = Len(gFiles)
        /\ Range(NodeIds) = Range(PathsOf(gFiles))
        /\ Distinct(NodeIds)

\* C7, amended: node i is identified by the path of record i, so the number of nodes
\* is the length of the list and the set of node ids is the set of input paths; two
\* nodes share an id exactly when the list holds their path twice.
C7_NodesFollowRecords ==
    gBuilt =>
        /\ Len(gArtifact.nodes) = Len(gFiles)
        /\ NodeIds = PathsOf(gFiles)
        /\ Range(NodeIds) = Range(PathsOf(gFiles))
        /\ Distinct(NodeIds) <=> Distinct(PathsOf(gFiles))

\* C7's case: a list of three records with three different paths, one of them in a
\* directory, was built.
C7_Witness ==
    /\ gBuilt
    /\ Len(gFiles) = MaxFiles
    /\ Distinct(PathsOf(gFiles))
    /\ Distinct(NodeIds)

\* The end-to-end scenario's records in some order.
IsScenario(files) ==
    \E ext \in ScenarioExts :
        /\ Len(files) = Len(Scenario(ext))
        /\ Range(files) = Range(Scenario(ext))

\* C10: for the scenario's snapshot buildGraph returns 4 nodes and exactly the
\* edges a->b, a->c and b->d, none of them to or from the external package.
C10_ScenarioGraph ==
    gBuilt /\ IsScenario(gFiles) =>
        LET ext == CHOOSE x \in ScenarioExts : Range(gFiles) = Range(Scenario(x))
        IN  /\ Len(gArtifact.nodes) = 4
            /\ Len(gArtifact.edges) = 3
            /\ Range(PairsOf(gArtifact.edges))
                   = { <<"a" \o ext, "b" \o ext>>, <<"a" \o ext, "c" \o ext>>,
                       <<"b" \o ext, "d" \o ext>> }
            /\ \A i \in 1..Len(gArtifact.edges) :
                  /\ gArtifact.edges[i].source # "react"
                  /\ gArtifact.edges[i].target # "react"

\* C10's case: the snapshot of the files a, b, c and d, named without an
\* extension, was built.
C10_Witness == gBuilt /\ gFiles = Scenario("")

(***************************************************************************)
(* Properties of buildFileTree.                                            *)
(***************************************************************************)

RECURSIVE NodesBelow(_)
\* The nodes under a list of children, depth first: each as [path, type, kids],
\* kids the number of its children.
NodesBelow(children) ==
    IF Len(children) = 0 THEN <<>>
    ELSE << [path |-> children[1].path, type |-> children[1].type,
             kids |-> Len(children[1].children)] >>
         \o NodesBelow(children[1].children) \o NodesBelow(Tail(children))

\* The directory prefixes of a path: a/b/c has a and a/b.
DirPrefixes(path) ==
    LET parts == Split(path, "/")
    IN  {Join(SubSeq(parts, 1, i), "/") : i \in 1..(Len(parts) - 1)}

\* The directory prefixes of the paths of a list.
AllDirPrefixes(paths) == UNION {DirPrefixes(paths[i]) : i \in 1..Len(paths)}

\* The nodes of the tree under the root with this type and path.
NodesAt(type, path) ==
    LET below == NodesBelow(tTree.children)
    IN  {i \in 1..Len(below) : below[i].type = type /\ below[i].path = path}

DirectoryOf(path) ==
    LET parts == Split(path, "/")
    IN  Join(SubSeq(parts, 1, Len(parts) - 1), "/")

RECURSIVE SkipSlashes(_)
SkipSlashes(s) == IF s # "" /\ CharAt(s, 1) = "/" THEN SkipSlashes(Tail(s)) ELSE s

\* The stem a specifier names: what follows '@/', taken from the snapshot root, or
\* what follows './', taken from the directory of the referencing file.
StemOf(specifier, fromFile) ==
    IF StartsWith(specifier, "@/") THEN SubSeq(specifier, 3, Len(specifier))
    ELSE LET rest == SkipSlashes(SubSeq(specifier, 3, Len(specifier)))
             dir == DirectoryOf(fromFile)
         IN  IF dir = "" THEN rest ELSE dir \o "/" \o rest

\* The six candidates of a stem in their priority order.
SixOf(stem) ==
    << stem, stem \o ".ts", stem \o ".tsx", stem \o ".js",
       stem \o "/index.ts", stem \o "/index.tsx" >>

\* The first of the six candidates of the record's specifier that is a path of the
\* list, Null when none is.
TargetOf(f, files) ==
    LET six == SixOf(StemOf(f.content[1].spec, f.path))
        known == {i \in 1..Len(six) : six[i] \in Range(PathsOf(files))}
    IN  IF known = {} THEN Null
        ELSE six[CHOOSE i \in known : \A j \in known : i <= j]

\* The edges the referencing records among these indices of gFiles are to produce.
EdgesDue(indices) ==
    { <<gFiles[k].path, TargetOf(gFiles[k], gFiles)>> :
        k \in {i \in indices : /\ gFiles[i].hasContent
                                /\ TargetOf(gFiles[i], gFiles) # Null
                                /\ TargetOf(gFiles[i], gFiles) # gFiles[i].path} }

\* The referencing records in a directory, and the aliased ones.
NotRootRelative ==
    {k \in 1..Len(gFiles) :
        gFiles[k].hasContent
        /\ (StartsWith(gFiles[k].content[1].spec, "@/") \/ DirectoryOf(gFiles[k].path) # "")}

\* C11: a './' specifier is resolved against the directory of the referencing file,
\* the snapshot root included: the edges of the graph are those to the first known
\* candidate of each record's stem, so a.ts referencing './b' has an edge to b.ts.
C11_RelativeFromEveryDirectory ==
    gBuilt => Range(PairsOf(gArtifact.edges)) = EdgesDue(1..Len(gFiles))

\* C12: for a stem from an alias or from a relative specifier of a file in a
\* directory, the edge goes to the first of S, S.ts, S.tsx, S.js, S/index.ts and
\* S/index.tsx that is a known path, and there is no edge when none is.
C12_FirstCandidateWins ==
    gBuilt => Range(PairsOf(gArtifact.edges)) = EdgesDue(NotRootRelative)

\* C12's case: an aliased or a directory-relative reference to a stem of which two
\* candidates are known paths, with the edge going to the earlier one.
C12_Witness ==
    /\ gBuilt
    /\ \E k \in NotRootRelative :
          /\ \E t \in ResolveTargets \ {"lib/b"} :
                /\ t # TargetOf(gFiles[k], gFiles)
                /\ t \in Range(PathsOf(gFiles))
                /\ \E i \in 1..6 : SixOf(StemOf(gFiles[k].content[1].spec, gFiles[k].path))[i] = t
          /\ <<gFiles[k].path, TargetOf(gFiles[k], gFiles)>> \in Range(PairsOf(gArtifact.edges))

(***************************************************************************)
(* Properties of the role classifier, seen through the nodes of buildGraph.*)
(***************************************************************************)

\* The rules that match a path.
RulesMatching(path) ==
    {i \in 1..Len(ROLE_HEURISTICS) : RuleMatches(ROLE_HEURISTICS[i], path)}

\* The paths that end in a file name of this stem with a ts, tsx, js or jsx extension.
EndsInName(path, stem) == \E e \in {"ts", "tsx", "js", "jsx"} : EndsWith(path, stem \o "." \o e)

\* C13: a path that rules match gets the label of the first of them in
\* ROLE_HEURISTICS order, on its node and in fileRoles; a path ending in a page file
\* name gets a label containing 'Page', one ending in a layout file name 'Layout'.
C13_FirstRuleWins ==
    gBuilt =>
        \A i \in 1..Len(gArtifact.nodes) :
            LET path == gFiles[i].path
                role == gArtifact.nodes[i].role
                hits == RulesMatching(path)
            IN  /\ gArtifact.fileRoles[path] = role
                /\ hits # {} =>
                      role = ROLE_HEURISTICS[CHOOSE h \in hits : \A k \in hits : h <= k].role
                /\ EndsInName(path, "page") => Includes(role, "Page")
                /\ EndsInName(path, "layout") => Includes(role, "Layout")

\* C13's case: a path ending in a page file name that a later rule matches too, and
\* a path ending in a layout file name.
C13_Witness ==
    /\ gBuilt
    /\ \E i, j \in 1..Len(gFiles) :
          /\ EndsInName(gFiles[i].path, "page")
          /\ Cardinality(RulesMatching(gFiles[i].path)) > 1
          /\ Includes(gArtifact.nodes[i].role, "Page")
          /\ EndsInName(gFiles[j].path, "layout")

\* The extensions whose content the system analyses.
SourceExtensions ==
    {"ts", "tsx", "js", "jsx", "mjs", "cjs", "py", "go", "rs", "rb", "java", "cs", "cpp", "c"}

\* The text after the last '.' of a path in lower case, the whole path when it has none.
LastPiece(path) == ToLowerCase(Last(Split(path, ".")))

\* C14 as stated: a path no rule matches gets the module role when its extension is
\* one of the source extensions the system analyses, and 'File' otherwise.
C14_ModuleForEverySource ==
    gBuilt =>
        \A i \in 1..Len(gArtifact.nodes) :
            RulesMatching(gFiles[i].path) = {} =>
                gArtifact.nodes[i].role =
                    IF Includes(gFiles[i].path, ".") /\ LastPiece(gFiles[i].path) \in SourceExtensions
                    THEN "Module - A JavaScript/TypeScript module"
                    ELSE "File"

\* C14, amended: a path no rule matches gets the module role when the text after
\* its last '.' (the whole path when it has no '.') is, case-insensitively, ts, tsx,
\* js or jsx, and 'File' otherwise.
C14_ModuleForTsAndJs ==
    gBuilt =>
        \A i \in 1..Len(gArtifact.nodes) :
            RulesMatching(gFiles[i].path) = {} =>
                gArtifact.nodes[i].role =
                    IF LastPiece(gFiles[i].path) \in {"ts", "tsx", "js", "jsx"}
                    THEN "Module - A JavaScript/TypeScript module"
                    ELSE "File"

\* C14's case: no rule matches either of two paths, one with a TypeScript or
\* JavaScript extension and one with another analysed extension.
C14_Witness ==
    /\ gBuilt
    /\ \E i, j \in 1..Len(gFiles) :
          /\ RulesMatching(gFiles[i].path) = {}
          /\ RulesMatching(gFiles[j].path) = {}
          /\ LastPiece(gFiles[i].path) \in {"ts", "tsx", "js", "jsx"}
          /\ LastPiece(gFiles[j].path) \in SourceExtensions \ {"ts", "tsx", "js", "jsx"}
          /\ gArtifact.nodes[i].role # gArtifact.nodes[j].role

(***************************************************************************)
(* Properties of the content filter and the fan-out.                       *)
(***************************************************************************)

\* The extension of a path: what follows the last '.', "" when there is none.
ExtensionOf(path) == IF Includes(path, ".") THEN Last(Split(path, ".")) ELSE ""

\* The filter as specified: not over the ceiling when the size is known, and an
\* extension that is, case-insensitively, in the allow-list.
Analysable(path, size) ==
    /\ ~(size # NoSize /\ size > 100000)
    /\ ExtensionOf(path) # ""
    /\ ToLowerCase(ExtensionOf(path)) \in SourceExtensions

\* C15: the filter returns false for a known size over 100,000 bytes, otherwise
\* true exactly when the path has an extension that is in the allow-list, and the
\* inline shouldFetch and the worker's shouldFetchContent agree.
C15_FilterBySizeAndExtension ==
    cVerdict.applied =>
        /\ cVerdict.inline = Analysable(cInput.path, cInput.size)
        /\ cVerdict.worker = Analysable(cInput.path, cInput.size)
        /\ cVerdict.inline = cVerdict.worker

\* The items the fan-out went over.
FannedItems == Slice(fItems, IF fPc = "inline" THEN MAX_FILES ELSE MAX_FILES_TO_ANALYSE)

\* C16: after a fan-out every item is in the file set, in its place; an item whose
\* fetch failed is there without content, is a node of the graph and has no
\* outgoing edge (unless the tree lists its path again); every other item is
\* there with the outcome its own fetch gave, whatever failed beside it.
C16_FailedFetchKeepsTheRest ==
    fPc # "tree" =>
        LET items == FannedItems
            graph == buildGraph(fFiles)
        IN  /\ Len(fFiles) = Len(items)
            /\ Len(graph.nodes) = Len(items)
            /\ \A i \in 1..Len(items) :
                  /\ fFiles[i].path = items[i].path
                  /\ fFiles[i].size = items[i].size
                  /\ graph.nodes[i].id = items[i].path
            /\ \A i \in fFailed :
                  /\ ~fFiles[i].hasContent
                  /\ (\A j \in 1..Len(items) : j # i => items[j].path # items[i].path)
                        => \A e \in 1..Len(graph.edges) :
                              graph.edges[e].source # items[i].path
            /\ \A j \in (1..Len(items)) \ fFailed :
                  LET asked == LastPiece(items[j].path) \in SourceExtensions
                               /\ ~(items[j].size # NoSize /\ items[j].size > 100000)
                  IN  /\ fFiles[j].hasContent = (asked /\ items[j].text # <<>>)
                      /\ fFiles[j].content = IF asked THEN items[j].text ELSE <<>>

\* C16's case: of two files that reference each other the fetch of one failed and
\* the other kept its content and its edge to the first.
C16_Witness ==
    /\ fPc # "tree"
    /\ \E i \in fFailed, j \in (1..Len(fFiles)) \ fFailed :
          /\ fFiles[j].hasContent
          /\ \E e \in 1..Len(buildGraph(fFiles).edges) :
                /\ buildGraph(fFiles).edges[e].source = fFiles[j].path
                /\ buildGraph(fFiles).edges[e].target = fFiles[i].path

(***************************************************************************)
(* Properties of failure handling and of claiming.                         *)
(***************************************************************************)

\* The stages of the pipeline whose error the catch of runAnalysis receives.
StagesInTry == {"fetch", "store", "complete"}

\* An inline request whose pipeline failed and whose write of FAILED failed too,
\* before the handler returns.
InlineWriteFailed(r) ==
    /\ req[r].pc = "done"
    /\ req[r].cause \in StagesInTry
    /\ ~req[r].wrote

\* A poll whose processAnalysis failed for job id and whose catch found an analysis
\* to mark and failed to write it, before poll returns.
WorkerWriteFailed(t) ==
    /\ tick[t].pc = "done"
    /\ tick[t].cause \in StagesInTry \cup {"mark"}
    /\ tick[t].id # 0
    /\ tick[t].target # 0
    /\ ~tick[t].wrote

\* C17: when a job's pipeline failed and the write of FAILED failed too, the job is
\* in PROCESSING and stays there: it is so in every state from the failed write on,
\* whatever steps the other processes take, here up to the return of the handler.
C17_StuckInProcessing ==
    /\ \A r \in Reqs : InlineWriteFailed(r) => analysis[req[r].id].status = "PROCESSING"
    /\ \A t \in AllTicks : WorkerWriteFailed(t) => analysis[tick[t].id].status = "PROCESSING"

\* The positions of a slot inside the pipeline, after the claiming update.
InPipeline == {"processing", "fetched", "stored"}

\* A step in which a slot's claiming update succeeds.
Claims(before, after) == before.pc \in {"created", "found"} /\ after.pc = "processing"

\* C18: claiming is a plain read-then-update: the update writes PROCESSING onto the
\* job the process read or created earlier, whatever the job's status has become
\* meanwhile, so two processes can both run the pipeline for one job.
C18_ClaimHasNoGuard ==
    [][\A step \in SlotSteps :
          Claims(step[1], step[2])
              => /\ analysis'[step[1].id].status = "PROCESSING"
                 /\ \A j \in Jobs \ {step[1].id} : analysis'[j] = analysis[j]]_vars

\* C18's case: the inline path and a worker poll are both inside the pipeline for
\* one job, which the worker read as PENDING.
C18_Witness ==
    \E r \in Reqs, t \in AllTicks :
        /\ req[r].pc \in InPipeline
        /\ tick[t].pc \in InPipeline
        /\ req[r].id = tick[t].id

\* C19: within the worker at most one job is in flight: no two invocations of poll
\* are inside processAnalysis at once.
C19_OneJobInFlight ==
    Cardinality({t \in AllTicks : tick[t].pc \in InPipeline}) <= 1

\* C20: only a job that is in PENDING is ever started, so no job whose run has
\* started is started again by any process.
C20_OnlyPendingIsStarted ==
    [][\A step \in SlotSteps :
          Claims(step[1], step[2]) => analysis[step[1].id].status = "PENDING"]_vars


\* C22: with a fair poll loop and a database that answers, every job that was created
\* (in PENDING) eventually is COMPLETED or FAILED: none stays PENDING or PROCESSING
\* for ever, whatever happens to the runs of the other jobs.
C22_EveryJobEnds ==
    \A j \in 1..MaxJobs :
        [](Len(analysis) >= j =>
            <>(Len(analysis) >= j /\ analysis[j].status \in {"COMPLETED", "FAILED"}))

\* C25: when the inline POST returns its success response (runAnalysis returned without
\* throwing), the job it names is stored as COMPLETED and has its artifact, so that the
\* first poll of the client finds it COMPLETED, a worker polling the same database or not.
C25_ReturnedMeansCompleted ==
    [][\A r \in Reqs :
        req[r].pc = "done" /\ req[r].cause = "none" /\ req'[r].pc = "idle" =>
            /\ analysis[req[r].id].status = "COMPLETED"
            /\ ArtifactRows(req[r].id) # {}]_vars

\* C26: in every reachable state a job whose status is COMPLETED has a stored artifact:
\* on both paths the upsert of the artifact comes before the write of COMPLETED, and no
\* step removes an artifact.
C26_CompletedHasArtifact ==
    \A j \in Jobs : analysis[j].status = "COMPLETED" => ArtifactRows(j) # {}

\* C26's case: both paths have completed a job, the inline request its own and the
\* worker the queued one, and each of the two has its artifact.
C26_Witness ==
    /\ Len(analysis) = 2
    /\ \A j \in Jobs : analysis[j].status = "COMPLETED" /\ Cardinality(ArtifactRows(j)) = 1
    /\ \E j \in Jobs : analysis[j].guestId = Null
    /\ \E j \in Jobs : analysis[j].guestId # Null

\* Whether the requester may read job id: the signed-in owner, the guest whose guestId
\* the job carries, or anyone once the job is COMPLETED.
MayRead(id, who) ==
    \/ who.userId # Null /\ who.userId = analysis[id].userId
    \/ who.guestId # Null /\ who.guestId = analysis[id].guestId
    \/ analysis[id].status = "COMPLETED"

\* A response that carries nothing of a job.
NoJobData(res) == res.status = Null /\ res.error = Null /\ ~res.hasArtifact

FormsBehind(e) ==
    { gFiles[k].content[1].form :
        k \in {j \in 1..Len(gFiles) :
                  /\ gFiles[j].path = e.source
                  /\ gFiles[j].hasContent
                  /\ resolveImportPath(gFiles[j].content[1].spec, gFiles[j].path,
                                       PathsOf(gFiles)) = e.target} }

\* C24: an edge is of type 'require' when the specifier behind it was taken from a
\* require('...') call and of type 'import' when it was taken from an import or an
\* export-from declaration, whatever the characters of the specifier.
C24_TypeFollowsTheForm ==
    gBuilt =>
        \A i \in 1..Len(gArtifact.edges) :
            LET e == gArtifact.edges[i]
                forms == FormsBehind(e)
            IN  /\ forms = {"require"} => e.type = "require"
                /\ forms # {} /\ forms \subseteq {"import", "export"} => e.type = "import"

(***************************************************************************)
(* Properties of the resolver on parent-directory segments.                *)
(***************************************************************************)

HasParentSegment(specifier) == SeqIncludes(Split(specifier, "/"), "..")

\* The records whose relative specifier has a parent segment.
ParentRecords ==
    {k \in 1..Len(gFiles) :
        /\ gFiles[k].hasContent
        /\ StartsWith(gFiles[k].content[1].spec, ".")
        /\ HasParentSegment(gFiles[k].content[1].spec)}

\* The edges that leave the path of such a record.
EdgesOfParentRecords ==
    {i \in 1..Len(gArtifact.edges) :
        \E k \in ParentRecords : gFiles[k].path = gArtifact.edges[i].source}

\* The file a record's specifier denotes once its segments are collapsed.
Denoted(k) ==
    Join(CollapseSegments(Split(DirectoryOf(gFiles[k].path) \o "/"
                                  \o gFiles[k].content[1].spec, "/"), <<>>), "/")

\* C28 as stated: with known paths free of '.' and '..' segments, a relative specifier
\* with a parent segment is never resolved, so no edge leaves its record.
C28_ParentNeverResolves ==
    gBuilt => EdgesOfParentRecords = {}

\* C28: a relative specifier with a parent segment is never resolved to the file it
\* denotes; the one thing it can resolve to is a file whose name is the trailing '..'
\* of the specifier followed by '.ts', '.tsx' or '.js'.
C28_ParentOnlyResolvesToDots ==
    gBuilt =>
        \A i \in EdgesOfParentRecords :
            LET e == gArtifact.edges[i] IN
            /\ Last(Split(e.target, "/")) \in {"...ts", "...tsx", "...js"}
            /\ \E k \in ParentRecords :
                /\ gFiles[k].path = e.source
                /\ Last(Split(gFiles[k].content[1].spec, "/")) = ".."
                /\ Denoted(k) \o ".ts" # e.target

\* C28's case: a record whose specifier with a parent segment denotes a file of the
\* list, and no edge leaves it.
C28_Witness ==
    /\ gBuilt
    /\ \E k \in ParentRecords :
        /\ Denoted(k) \o ".ts" \in Range(PathsOf(gFiles))
        /\ \A i \in 1..Len(gArtifact.edges) : gArtifact.edges[i].source # gFiles[k].path

\* The jobs whose row a step changes.
RowsChanged == {j \in Jobs : analysis'[j] # analysis[j]}

\* C23: when a catch writes FAILED, the row it changes is the one of the job its run was
\* processing: the worker's catch (and the inline one) never changes the status or the
\* error of another job, an older job in PROCESSING included.
C23_FailedOnlyOnTheFailedJob ==
    [][/\ \A t \in AllTicks :
            tick[t].pc = "catchFound" /\ tick'[t].pc = "done" => RowsChanged \subseteq {tick[t].id}
       /\ \A r \in Reqs :
            req[r].pc = "catch" /\ req'[r].pc # "catch" => RowsChanged \subseteq {req[r].id}]_vars

(***************************************************************************)
(* Properties of the browser's poll loop.                                  *)
(***************************************************************************)

\* What the store holds for the analysis the browser watches.
Watched == analysis[cJob]

WatchedIsReady == Watched.status = "COMPLETED" /\ ArtifactRows(cJob) # {}

\* C27: the poll loop of one analysis makes at most 60 polls. A poll ends the loop with
\* "completed" on COMPLETED with an artifact, with "failed" on FAILED, on a refused or
\* failed request and after the 60th attempt, and otherwise goes on; once ended it polls
\* no more; and no poll, the last one included, changes what is stored for the job.
C27_PollLoopEnds ==
    [][/\ cAttempts' <= maxAttempts
       /\ cState \in {"completed", "failed"} => UNCHANGED clientVars
       /\ cAttempts' # cAttempts =>
            /\ cAttempts' = cAttempts + 1
            /\ UNCHANGED <<analysis, graphArtifact>>
            /\ cState' = "completed" => WatchedIsReady
            /\ cState' = "processing" =>
                    /\ cAttempts' < maxAttempts
                    /\ ~WatchedIsReady
                    /\ Watched.status # "FAILED"
            /\ cState' = "failed" =>
                    \/ cError' = "Analysis failed" /\ Watched.status = "FAILED"
                    \/ cError' \in {"Could not fetch analysis status",
                                    "Network error while polling for results"}
                    \/ /\ cError' = "Analysis timed out - the worker may not be running"
                       /\ cAttempts' = maxAttempts
                       /\ ~WatchedIsReady
                       /\ Watched.status # "FAILED"]_vars

\* C27's case: the browser gave up after its 60th poll, and the job it watched went on
\* and is COMPLETED now.
C27_Witness ==
    /\ cState = "failed"
    /\ cAttempts = maxAttempts
    /\ cError = "Analysis timed out - the worker may not be running"
    /\ Watched.status = "COMPLETED"

(***************************************************************************)
(* Properties of the guest history.                                        *)
(***************************************************************************)

RECURSIVE InOrderWithin(_, _)
\* Whether the records of xs are records of ys in the order they have there.
InOrderWithin(xs, ys) ==
    IF Len(xs) = 0 THEN TRUE
    ELSE IF Len(ys) = 0 THEN FALSE
    ELSE IF xs[1] = ys[1] THEN InOrderWithin(Tail(xs), Tail(ys))
    ELSE InOrderWithin(xs, Tail(ys))

\* No two records of the same id, and at most GUEST_HISTORY_MAX records.
WellFormedHistory(records) ==
    /\ Len(records) <= GUEST_HISTORY_MAX
    /\ \A i, j \in 1..Len(records) : records[i].id = records[j].id => i = j

\* C30 as stated: after every call of guestHistory.add the stored history has no two
\* records of one id, at most 20 records, the record just added first, and behind it
\* records of the earlier history in the order they had.
C30_NewestFirst ==
    [][/\ WellFormedHistory(hStored')
       /\ hStored' # <<>>
       /\ hStored'[1] = hAdded'
       /\ InOrderWithin(Tail(hStored'), hStored)]_vars

\* C30: after every call the stored history has no two records of one id and at most 20
\* records. A call whose cache write succeeded leaves the added record first, followed
\* by the earlier records without the one of the same id, cut to 20 in all - or by
\* nothing when its cache read failed. A call whose write failed leaves the history as
\* it was.
C30_NewestFirstWhenStored ==
    [][/\ WellFormedHistory(hStored')
       /\ \/ hStored' = hStored
          \/ hStored' = <<hAdded'>>
          \/ /\ hStored'[1] = hAdded'
             /\ Tail(hStored') =
                    Take(WithoutId(hStored, hAdded'.id), GUEST_HISTORY_MAX - 1)]_vars

\* C30's case: more than 20 analyses were added, the history is full, and the repeated
\* analysis was added again and stands first.
C30_Witness ==
    /\ Len(hStored) = GUEST_HISTORY_MAX
    /\ hStored[1] = hAdded
    /\ hStored[1].id \in RepeatedIds
    /\ hStored[2].id > GUEST_HISTORY_MAX

(***************************************************************************)
(* Properties of the guest usage check.                                    *)
(***************************************************************************)

\* The count stored for a device, 0 while it has no row.
StoredCount(table, deviceId) ==
    IF deviceId \in DOMAIN table THEN table[deviceId].count ELSE 0

\* C21: a call of checkAndIncrementGuestUsage made when the stored count of its device
\* is at least GUEST_LIMIT returns allowed=false with code GUEST_LIMIT_REACHED and
\* leaves the count unchanged, so that no device is ever counted (allowed) more than
\* GUEST_LIMIT times. GUEST_LIMIT is the limit of 3 of part_017 and of the README; with
\* the Infinity of src/lib/guest.ts the statement would have no case.
C21_RefusedAtTheLimit ==
    [][guestCalls' = guestCalls + 1 =>
        /\ StoredCount(guestUsage, guestLast'.deviceId) >= GUEST_LIMIT =>
            /\ guestLast'.result.allowed = FALSE
            /\ guestLast'.result.code = "GUEST_LIMIT_REACHED"
            /\ guestLast'.result.count = StoredCount(guestUsage, guestLast'.deviceId)
            /\ guestUsage' = guestUsage
        /\ \A d \in Devices : StoredCount(guestUsage', d) <= GUEST_LIMIT]_vars

=============================================================================
